---- MODULE Spec2Model ----
(***************************************************************************)
(* PageSage content script: the incremental page-content extraction engine *)
(* (src/unnamed/part_002, lines 503-1033).                                 *)
(*                                                                         *)
(* Strings are kept run-length encoded: a string is a sequence of runs     *)
(* [c |-> character code, n |-> repetitions >= 1] in which adjacent runs   *)
(* carry different characters, so that two strings are equal exactly when  *)
(* their encodings are equal and a text of 50000 characters is one run.    *)
(***************************************************************************)
EXTENDS Integers, Sequences, FiniteSets, TLC

(***************************************************************************)
(* Strings                                                                 *)
(***************************************************************************)

Min(a, b) == IF a <= b THEN a ELSE b

Abs(a) == IF a < 0 THEN 0 - a ELSE a

EmptyStr == << >>

\* n copies of the character c
Rep(c, n) == IF n <= 0 THEN << >> ELSE << [c |-> c, n |-> n] >>

\* String.length
StrLen(s) ==
  LET RECURSIVE Sum(_)
      Sum(i) == IF i = 0 THEN 0 ELSE s[i].n + Sum(i - 1)
  IN Sum(Len(s))

\* a + b
Concat(a, b) ==
  IF a = << >> THEN b
  ELSE IF b = << >> THEN a
  ELSE IF a[Len(a)].c = b[1].c
       THEN SubSeq(a, 1, Len(a) - 1)
              \o << [c |-> b[1].c, n |-> a[Len(a)].n + b[1].n] >>
              \o Tail(b)
       ELSE a \o b

\* the concatenation of a sequence of strings
RECURSIVE ConcatAll(_)
ConcatAll(ss) == IF ss = << >> THEN EmptyStr ELSE Concat(Head(ss), ConcatAll(Tail(ss)))

\* Array.prototype.join
RECURSIVE Join(_, _)
Join(ss, sep) ==
  IF ss = << >> THEN EmptyStr
  ELSE IF Len(ss) = 1 THEN ss[1]
  ELSE Concat(ss[1], Concat(sep, Join(Tail(ss), sep)))

\* s.substring(0, k)
RECURSIVE Substring0(_, _)
Substring0(s, k) ==
  IF k <= 0 \/ s = << >> THEN << >>
  ELSE IF s[1].n >= k THEN << [c |-> s[1].c, n |-> k] >>
  ELSE << s[1] >> \o Substring0(Tail(s), k - s[1].n)

\* the characters \s matches and trim() strips: tab, line feed, carriage return, space
IsWhitespace(c) == c \in {9, 10, 13, 32}

\* s.replace(/\s+/g, ' ')
RECURSIVE CollapseWhitespace(_)
CollapseWhitespace(s) ==
  IF s = << >> THEN << >>
  ELSE LET rest == CollapseWhitespace(Tail(s))
       IN IF IsWhitespace(s[1].c)
          THEN Concat(Rep(32, 1),
                      IF rest # << >> /\ rest[1].c = 32 THEN Tail(rest) ELSE rest)
          ELSE Concat(<< s[1] >>, rest)

\* s.replace(/\n+/g, '\n')
RECURSIVE CollapseNewlines(_)
CollapseNewlines(s) ==
  IF s = << >> THEN << >>
  ELSE Concat(IF s[1].c = 10 THEN Rep(10, 1) ELSE << s[1] >>, CollapseNewlines(Tail(s)))

\* s.trim()
RECURSIVE TrimStart(_)
TrimStart(s) ==
  IF s # << >> /\ IsWhitespace(s[1].c) THEN TrimStart(Tail(s)) ELSE s

RECURSIVE TrimEnd(_)
TrimEnd(s) ==
  IF s # << >> /\ IsWhitespace(s[Len(s)].c) THEN TrimEnd(SubSeq(s, 1, Len(s) - 1)) ELSE s

Trim(s) == TrimEnd(TrimStart(s))

\* cleanText(text)
cleanText(text) == Trim(CollapseNewlines(CollapseWhitespace(text)))

(***************************************************************************)
(* hashText: hash = ((hash << 5) - hash) + code, wrapped to a signed       *)
(* 32-bit integer after every character, over the first 100 characters.    *)
(* The 32-bit value is carried as two 16-bit halves so that no             *)
(* intermediate product leaves TLC's integer range.                        *)
(***************************************************************************)

HashSampleLen == 100

Half == 256 * 256

\* one loop iteration on the halves <<hi, lo>>: 31 * hash + code, mod 2^32
HashStep(h, code) ==
  LET lo == 31 * h[2] + code
      hi == 31 * h[1] + (lo \div Half)
  IN << hi % Half, lo % Half >>

\* n loop iterations over the same character.  The run is done in two halves,
\* the first evaluated before the second starts, so that the evaluation nests
\* only logarithmically deep.
RECURSIVE HashRun(_, _, _)
HashRun(h, code, n) ==
  IF n = 0 THEN h
  ELSE IF n = 1 THEN HashStep(h, code)
  ELSE LET mid == HashRun(h, code, n \div 2)
       IN IF mid[1] >= 0 THEN HashRun(mid, code, n - (n \div 2)) ELSE mid

RECURSIVE HashRuns(_, _)
HashRuns(h, s) ==
  IF s = << >> THEN h
  ELSE LET next == HashRun(h, s[1].c, s[1].n)
       IN IF next[1] >= 0 THEN HashRuns(next, Tail(s)) ELSE next

\* hash |= 0: the halves read as a signed 32-bit integer
ToInt32(h) == IF h[1] >= Half \div 2 THEN (h[1] - Half) * Half + h[2] ELSE h[1] * Half + h[2]

\* the hash over the whole text
hashTextWhole(text) == ToInt32(HashRuns(<< 0, 0 >>, text))

hashText(text) == ToInt32(HashRuns(<< 0, 0 >>, Substring0(text, HashSampleLen)))

(***************************************************************************)
(* The document.  A document is the sequence of the nodes below            *)
(* document.body in document order; parent is the index of the parent      *)
(* node, 0 standing for document.body itself.  Text nodes have the tag     *)
(* "#text" and carry their characters in text.  hidden is what             *)
(* getComputedStyle reports for the element (display none or visibility    *)
(* hidden).  An img carries src as a sequence of URL segments, its natural *)
(* size, and tainted: whether drawing it taints the canvas (cross-origin   *)
(* without permissive access).                                             *)
(***************************************************************************)

Elem(tag, parent) ==
  [tag |-> tag, parent |-> parent, text |-> EmptyStr, id |-> "", cls |-> "", role |-> "",
   hidden |-> FALSE, src |-> << >>, alt |-> "", title |-> "", w |-> 0, h |-> 0,
   tainted |-> FALSE]

TextNode(parent, s) == [Elem("#text", parent) EXCEPT !.text = s]

Img(parent, src, w, h, tainted) ==
  [Elem("img", parent) EXCEPT !.src = src, !.w = w, !.h = h, !.tainted = tainted]

\* node j lies strictly below node i (i = 0: below document.body)
RECURSIVE IsDescendant(_, _, _)
IsDescendant(dom, j, i) ==
  IF j = 0 THEN FALSE
  ELSE dom[j].parent = i \/ IsDescendant(dom, dom[j].parent, i)

\* the indices in lo..hi that satisfy Keep, in increasing order
Filter(lo, hi, Keep(_)) == SelectSeq([k \in 1..(hi - lo + 1) |-> lo + k - 1], Keep)

\* root.querySelectorAll(<tags>): the descendants of root with one of the tags
querySelectorAll(dom, root, tags) ==
  LET Keep(j) == dom[j].tag \in tags /\ IsDescendant(dom, j, root)
  IN Filter(1, Len(dom), Keep)

\* el.childNodes
childNodes(dom, i) ==
  LET Keep(j) == dom[j].parent = i
  IN Filter(1, Len(dom), Keep)

\* node.textContent: the text of the node itself (a text node) or of all the
\* text nodes below it, in document order
textContent(dom, i) ==
  IF i # 0 /\ dom[i].tag = "#text" THEN dom[i].text
  ELSE LET Keep(j) == dom[j].tag = "#text" /\ IsDescendant(dom, j, i)
           ts == Filter(1, Len(dom), Keep)
       IN ConcatAll([k \in 1..Len(ts) |-> dom[ts[k]].text])

\* parent.tagName.toLowerCase() of a node's parent element
ParentTag(dom, j) == IF dom[j].parent = 0 THEN "body" ELSE dom[dom[j].parent].tag

ParentHidden(dom, j) == IF dom[j].parent = 0 THEN FALSE ELSE dom[dom[j].parent].hidden

HeadingTags == {"h1", "h2", "h3", "h4", "h5", "h6"}

\* parseInt(heading.tagName[1])
HeadingLevel(tag) ==
  CASE tag = "h1" -> 1 [] tag = "h2" -> 2 [] tag = "h3" -> 3
    [] tag = "h4" -> 4 [] tag = "h5" -> 5 [] tag = "h6" -> 6

(***************************************************************************)
(* Main Content Locator                                                    *)
(***************************************************************************)

contentSelectors ==
  << [by |-> "id", name |-> "mw-content-text"],
     [by |-> "id", name |-> "bodyContent"],
     [by |-> "class", name |-> "mw-parser-output"],
     [by |-> "tag", name |-> "article"],
     [by |-> "role", name |-> "main"],
     [by |-> "tag", name |-> "main"],
     [by |-> "class", name |-> "article-content"],
     [by |-> "class", name |-> "post-content"],
     [by |-> "class", name |-> "entry-content"],
     [by |-> "class", name |-> "content-area"],
     [by |-> "id", name |-> "content"],
     [by |-> "class", name |-> "main-content"],
     [by |-> "class", name |-> "postArticle-content"],
     [by |-> "class", name |-> "story-body"],
     [by |-> "class", name |-> "article-body"] >>

Matches(node, sel) ==
  /\ node.tag # "#text"
  /\ CASE sel.by = "id" -> node.id = sel.name
       [] sel.by = "class" -> node.cls = sel.name
       [] sel.by = "role" -> node.role = sel.name
       [] sel.by = "tag" -> node.tag = sel.name

\* document.querySelector(sel): the first match in document order, 0 for null
querySelector(dom, sel) ==
  LET Keep(j) == Matches(dom[j], sel)
      ms == Filter(1, Len(dom), Keep)
  IN IF ms = << >> THEN 0 ELSE ms[1]

MainContentMinLen == 500

\* findMainContent(): the element found, 0 for null
findMainContent(dom) ==
  LET RECURSIVE Try(_)
      Try(k) ==
        IF k > Len(contentSelectors) THEN 0
        ELSE LET el == querySelector(dom, contentSelectors[k])
             IN IF el # 0 /\ StrLen(Trim(textContent(dom, el))) > MainContentMinLen
                THEN el
                ELSE Try(k + 1)
  IN Try(1)

(***************************************************************************)
(* Deduplication Engine and the text log                                   *)
(***************************************************************************)

\* "\n"
NL == Rep(10, 1)

\* isDuplicate with the insertion forgotten
isDuplicateNoInsert(text, seen) == [dup |-> hashText(text) \in seen, seen |-> seen]

\* isDuplicate(text) on the set seenTextBlocks: the result and the set afterwards
isDuplicate(text, seen) ==
  LET hash == hashText(text)
  IN [dup |-> hash \in seen, seen |-> seen \cup {hash}]

\* addText assigning instead of appending
addTextOverwrite(tc, text) == Concat(text, NL)

\* addText(text) on extractedContent.textContent
addText(tc, text) == Concat(tc, Concat(text, NL))

(***************************************************************************)
(* Extraction strategies.  The state a scan threads through is             *)
(* [seen, textContent, paragraphs].  A candidate is what one loop          *)
(* iteration looks at: long = its first test, key = the text handed to     *)
(* isDuplicate, out = the text handed to addText, para = whether it is     *)
(* also pushed to structuredContent.paragraphs.                            *)
(***************************************************************************)

\* the scan with isDuplicate(key) called before the length test
RECURSIVE OfferHashFirst(_, _)
OfferHashFirst(st, cands) ==
  IF cands = << >> THEN st
  ELSE LET c == Head(cands)
           d == isDuplicate(c.key, st.seen)
       IN IF d.dup \/ ~c.long THEN OfferHashFirst([st EXCEPT !.seen = d.seen], Tail(cands))
          ELSE OfferHashFirst([seen |-> d.seen,
                               textContent |-> addText(st.textContent, c.out),
                               paragraphs |-> IF c.para THEN Append(st.paragraphs, c.out)
                                              ELSE st.paragraphs],
                              Tail(cands))

\* if (<length test> && !isDuplicate(key)) addText(out), over the candidates in order
RECURSIVE Offer(_, _)
Offer(st, cands) ==
  IF cands = << >> THEN st
  ELSE LET c == Head(cands)
           d == isDuplicate(c.key, st.seen)
       IN IF ~c.long THEN Offer(st, Tail(cands))
          ELSE IF d.dup THEN Offer([st EXCEPT !.seen = d.seen], Tail(cands))
          ELSE Offer([seen |-> d.seen,
                      textContent |-> addText(st.textContent, c.out),
                      paragraphs |-> IF c.para THEN Append(st.paragraphs, c.out)
                                     ELSE st.paragraphs],
                     Tail(cands))

InlineTags == {"a", "span", "strong", "em", "b", "i", "sup", "sub"}

\* getDirectText(element)
getDirectText(dom, i) ==
  LET kids == childNodes(dom, i)
      Part(j) == IF dom[j].tag = "#text" THEN dom[j].text
                 ELSE IF dom[j].tag \in InlineTags THEN textContent(dom, j)
                 ELSE EmptyStr
  IN cleanText(ConcatAll([k \in 1..Len(kids) |-> Part(kids[k])]))

TableMaxRowIndex == 20

TableCellMaxLen == 200

\* extractTableText(table)
extractTableText(dom, table) ==
  LET trs == querySelectorAll(dom, table, {"tr"})
      Cells(tr) ==
        LET cs == querySelectorAll(dom, tr, {"th", "td"})
            texts == [k \in 1..Len(cs) |-> cleanText(textContent(dom, cs[k]))]
            Short(t) == StrLen(t) < TableCellMaxLen
        IN SelectSeq(texts, Short)
      \* forEach index i = k - 1: rows with i > 20 are skipped
      Scanned == [k \in 1..Min(Len(trs), TableMaxRowIndex + 1) |-> Cells(trs[k])]
      NonEmpty(cells) == Len(cells) > 0
      kept == SelectSeq(Scanned, NonEmpty)
  IN Join([k \in 1..Len(kept) |-> Join(kept[k], << [c |-> 32, n |-> 1], [c |-> 124, n |-> 1],
                                                   [c |-> 32, n |-> 1] >>)], NL)

ParagraphMinLen == 20

ListItemMinLen == 10

\* "\n## " + text + "\n"
HeadingBlock(text) ==
  Concat(NL, Concat(Rep(35, 2), Concat(Rep(32, 1), Concat(text, NL))))

\* the list-item prefix of the source, three characters and a space
BulletBlock(text) ==
  Concat(<< [c |-> 226, n |-> 1], [c |-> 8364, n |-> 1], [c |-> 162, n |-> 1],
            [c |-> 32, n |-> 1] >>, text)

\* "> " + text
QuoteBlock(text) == Concat(<< [c |-> 62, n |-> 1], [c |-> 32, n |-> 1] >>, text)

\* the candidate with the text handed to addText, prefix and all, as its key
CandidateKeyedOnOutput(long, key, out, para) ==
  [long |-> long, key |-> out, out |-> out, para |-> para]

\* what one loop iteration of a scan looks at
Candidate(long, key, out, para) == [long |-> long, key |-> key, out |-> out, para |-> para]

\* extractFromElement(element)
extractFromElement(st, dom, element) ==
  LET ps == querySelectorAll(dom, element, {"p"})
      hs == querySelectorAll(dom, element, HeadingTags)
      lis == querySelectorAll(dom, element, {"li"})
      tables == querySelectorAll(dom, element, {"table"})
      bqs == querySelectorAll(dom, element, {"blockquote"})
      dds == querySelectorAll(dom, element, {"dd"})
      Clean(j) == cleanText(textContent(dom, j))
      Paragraph(text) == Candidate(StrLen(text) > ParagraphMinLen, text, text, TRUE)
      Heading(text) == Candidate(text # EmptyStr, text, HeadingBlock(text), FALSE)
      Item(directText) ==
        Candidate(StrLen(directText) > ListItemMinLen, directText, BulletBlock(directText),
                  FALSE)
      Table(tableText) == Candidate(tableText # EmptyStr, tableText, tableText, FALSE)
      Quote(text) == Candidate(StrLen(text) > ParagraphMinLen, text, QuoteBlock(text), FALSE)
      Definition(text) == Candidate(StrLen(text) > ParagraphMinLen, text, text, FALSE)
  IN Offer(st,
       [k \in 1..Len(ps) |-> Paragraph(Clean(ps[k]))]
         \o [k \in 1..Len(hs) |-> Heading(Clean(hs[k]))]
         \o [k \in 1..Len(lis) |-> Item(getDirectText(dom, lis[k]))]
         \o [k \in 1..Len(tables) |-> Table(extractTableText(dom, tables[k]))]
         \o [k \in 1..Len(bqs) |-> Quote(Clean(bqs[k]))]
         \o [k \in 1..Len(dds) |-> Definition(Clean(dds[k]))])

WalkerSkipTags == {"script", "style", "noscript", "iframe", "svg", "nav", "footer", "header"}

WalkerMinLen == 10

\* the acceptNode filter of the tree walker
acceptNode(dom, j) ==
  /\ ParentTag(dom, j) \notin WalkerSkipTags
  /\ ~ParentHidden(dom, j)
  /\ ~(StrLen(Trim(dom[j].text)) < WalkerMinLen)

\* extractFromBody with the paragraph threshold in place of the walker's
extractFromBodyParagraphMin(st, dom) ==
  LET Keep(j) == dom[j].tag = "#text" /\ acceptNode(dom, j)
      nodes == Filter(1, Len(dom), Keep)
      Node(text) == Candidate(StrLen(text) > ParagraphMinLen, text, text, FALSE)
  IN Offer(st, [k \in 1..Len(nodes) |-> Node(cleanText(dom[nodes[k]].text))])

\* extractFromBody()
extractFromBody(st, dom) ==
  LET Keep(j) == dom[j].tag = "#text" /\ acceptNode(dom, j)
      nodes == Filter(1, Len(dom), Keep)
      Node(text) == Candidate(StrLen(text) > WalkerMinLen, text, text, FALSE)
  IN Offer(st, [k \in 1..Len(nodes) |-> Node(cleanText(dom[nodes[k]].text))])

(***************************************************************************)
(* Structured Content Builder                                              *)
(***************************************************************************)

HeadingMaxLen == 200

\* the headings loop without the find() test
updateHeadingsNoFind(dom) ==
  LET hs == querySelectorAll(dom, 0, HeadingTags)
      Entry(j) == [level |-> HeadingLevel(dom[j].tag), text |-> cleanText(textContent(dom, j))]
      Fits(e) == e.text # EmptyStr /\ StrLen(e.text) < HeadingMaxLen
  IN SelectSeq([k \in 1..Len(hs) |-> Entry(hs[k])], Fits)

\* the headings loop of updateStructuredContent(): starts from [] and pushes
\* {level, text} unless an entry with the same text is already there
updateHeadings(dom) ==
  LET hs == querySelectorAll(dom, 0, HeadingTags)
      RECURSIVE Loop(_, _)
      Loop(k, acc) ==
        IF k > Len(hs) THEN acc
        ELSE LET text == cleanText(textContent(dom, hs[k]))
                 existing == \E n \in 1..Len(acc) : acc[n].text = text
             IN IF text # EmptyStr /\ StrLen(text) < HeadingMaxLen /\ ~existing
                THEN Loop(k + 1, Append(acc, [level |-> HeadingLevel(dom[hs[k]].tag),
                                              text |-> text]))
                ELSE Loop(k + 1, acc)
  IN Loop(1, << >>)

MaxLists == 10

MaxListItems == 20

ListItemLow == 5

ListItemHigh == 500

\* the lists loop without the limit on the number of lists
updateListsNoLimit(dom) ==
  LET ls == querySelectorAll(dom, 0, {"ul", "ol"})
      Items(list) ==
        LET Keep(j) == dom[j].tag = "li" /\ dom[j].parent = list
            lis == Filter(1, Len(dom), Keep)
            texts == [k \in 1..Min(Len(lis), MaxListItems) |-> getDirectText(dom, lis[k])]
            Fits(t) == StrLen(t) > ListItemLow /\ StrLen(t) < ListItemHigh
        IN SelectSeq(texts, Fits)
      all == [k \in 1..Len(ls) |-> [type |-> dom[ls[k]].tag, items |-> Items(ls[k])]]
      NonEmpty(l) == Len(l.items) > 0
  IN SelectSeq(all, NonEmpty)

\* the lists loop of updateStructuredContent()
updateLists(dom) ==
  LET ls == querySelectorAll(dom, 0, {"ul", "ol"})
      Items(list) ==
        LET Keep(j) == dom[j].tag = "li" /\ dom[j].parent = list
            lis == Filter(1, Len(dom), Keep)
            texts == [k \in 1..Min(Len(lis), MaxListItems) |-> getDirectText(dom, lis[k])]
            Fits(t) == StrLen(t) > ListItemLow /\ StrLen(t) < ListItemHigh
        IN SelectSeq(texts, Fits)
      all == [k \in 1..Min(Len(ls), MaxLists) |->
                [type |-> dom[ls[k]].tag, items |-> Items(ls[k])]]
      NonEmpty(l) == Len(l.items) > 0
  IN SelectSeq(all, NonEmpty)

\* updateStructuredContent() on extractedContent.structuredContent
updateStructuredContent(sc, dom) ==
  [sc EXCEPT !.headings = updateHeadings(dom), !.lists = updateLists(dom)]

(***************************************************************************)
(* Image Capture                                                           *)
(***************************************************************************)

MAX_DIMENSION == 512

MinImageSize == 100

\* what getImageBase64 returns when the canvas throws
NullUrl == [mime |-> "null", w |-> 0, h |-> 0]

\* getImageBase64 that encodes a tainted canvas too
getImageBase64Encoded(img) ==
  [mime |-> "image/jpeg", w |-> Min(img.w, MAX_DIMENSION), h |-> Min(img.h, MAX_DIMENSION)]

\* getImageBase64(img): the JPEG data URL of the canvas, named by the canvas
\* size (the scaled size, cut to whole pixels), or null when drawing or
\* encoding throws
getImageBase64(img) ==
  LET big == img.w > MAX_DIMENSION \/ img.h > MAX_DIMENSION
      \* ratio = min(512 / w, 512 / h) is 512 / max(w, h)
      width == IF ~big THEN img.w
               ELSE IF img.w >= img.h THEN MAX_DIMENSION
               ELSE (img.w * MAX_DIMENSION) \div img.h
      height == IF ~big THEN img.h
                ELSE IF img.h >= img.w THEN MAX_DIMENSION
                ELSE (img.h * MAX_DIMENSION) \div img.w
  IN IF img.tainted THEN NullUrl
     ELSE [mime |-> "image/jpeg", w |-> width, h |-> height]

\* img.src.includes(word)
Includes(src, word) == \E k \in 1..Len(src) : src[k] = word

\* the size test with && in place of ||
ImageEligibleBothSmall(img, existingSrcs) ==
  /\ ~(img.w < MinImageSize /\ img.h < MinImageSize)
  /\ ~(img.src = << >> \/ img.src \in existingSrcs)
  /\ ~(Includes(img.src, "pixel") \/ Includes(img.src, "tracking"))

\* the three early returns of the updateImages() loop body
ImageEligible(img, existingSrcs) ==
  /\ ~(img.w < MinImageSize \/ img.h < MinImageSize)
  /\ ~(img.src = << >> \/ img.src \in existingSrcs)
  /\ ~(Includes(img.src, "pixel") \/ Includes(img.src, "tracking"))

\* updateImages that starts from an empty list in every pass
updateImagesRebuilt(images, dom) ==
  LET imgs == querySelectorAll(dom, 0, {"img"})
      Keep(j) == ImageEligible(dom[j], {})
      new == SelectSeq(imgs, Keep)
  IN [k \in 1..Len(new) |->
       [src |-> dom[new[k]].src, alt |-> dom[new[k]].alt, title |-> dom[new[k]].title,
        width |-> dom[new[k]].w, height |-> dom[new[k]].h,
        base64 |-> getImageBase64(dom[new[k]])]]

\* updateImages() on extractedContent.images: existingSrcs is built once,
\* before the loop over the img elements
updateImages(images, dom) ==
  LET existingSrcs == {images[k].src : k \in 1..Len(images)}
      imgs == querySelectorAll(dom, 0, {"img"})
      Keep(j) == ImageEligible(dom[j], existingSrcs)
      new == SelectSeq(imgs, Keep)
  IN images \o [k \in 1..Len(new) |->
       [src |-> dom[new[k]].src, alt |-> dom[new[k]].alt, title |-> dom[new[k]].title,
        width |-> dom[new[k]].w, height |-> dom[new[k]].h,
        base64 |-> getImageBase64(dom[new[k]])]]

(***************************************************************************)
(* extractAllContent(): one pass.  ec is extractedContent, seen is         *)
(* seenTextBlocks, t is what new Date() reads.                             *)
(***************************************************************************)

\* a pass that runs the fallback walker after the strategy scan too
extractAllContentBothPaths(ec, seen, dom, t) ==
  LET mainContent == findMainContent(dom)
      st0 == [seen |-> seen, textContent |-> ec.textContent,
              paragraphs |-> ec.structuredContent.paragraphs]
      st == IF mainContent # 0
            THEN extractFromBody(extractFromElement(st0, dom, mainContent), dom)
            ELSE extractFromBody(st0, dom)
      sc == updateStructuredContent(
              [ec.structuredContent EXCEPT !.paragraphs = st.paragraphs], dom)
  IN [ec |-> [ec EXCEPT !.textContent = st.textContent,
                        !.structuredContent = sc,
                        !.images = updateImages(ec.images, dom),
                        !.extractedAt = t],
      seen |-> st.seen]

extractAllContent(ec, seen, dom, t) ==
  LET mainContent == findMainContent(dom)
      st0 == [seen |-> seen, textContent |-> ec.textContent,
              paragraphs |-> ec.structuredContent.paragraphs]
      st == IF mainContent # 0 THEN extractFromElement(st0, dom, mainContent)
            ELSE extractFromBody(st0, dom)
      sc == updateStructuredContent(
              [ec.structuredContent EXCEPT !.paragraphs = st.paragraphs], dom)
  IN [ec |-> [ec EXCEPT !.textContent = st.textContent,
                        !.structuredContent = sc,
                        !.images = updateImages(ec.images, dom),
                        !.extractedAt = t],
      seen |-> st.seen]

\* extractAllContent() left by an exception after done of its statements:
\* 0 none, 1 the text extraction (lines 667-675), 2 updateStructuredContent()
\* too (line 678); nothing is undone
extractAllContentThrows(ec, seen, dom, done) ==
  LET mainContent == findMainContent(dom)
      st0 == [seen |-> seen, textContent |-> ec.textContent,
              paragraphs |-> ec.structuredContent.paragraphs]
      st == IF mainContent # 0 THEN extractFromElement(st0, dom, mainContent)
            ELSE extractFromBody(st0, dom)
      sc1 == [ec.structuredContent EXCEPT !.paragraphs = st.paragraphs]
  IN IF done = 0 THEN [ec |-> ec, seen |-> seen]
     ELSE [ec |-> [ec EXCEPT !.textContent = st.textContent,
                             !.structuredContent =
                               IF done = 1 THEN sc1 ELSE updateStructuredContent(sc1, dom)],
           seen |-> st.seen]

\* the statements of extractAllContent() an exception can follow
ThrowPoints == {0, 1, 2}

(***************************************************************************)
(* State                                                                   *)
(***************************************************************************)

VARIABLES
  dom,                 \* the live document below document.body
  pageHeight,          \* document.body.offsetHeight
  innerHeight,         \* window.innerHeight
  scrollY,             \* window.scrollY
  scrollEventPending,  \* the browser owes the window a scroll event
  clock,               \* what new Date() reads: a count of the passes so far
  phase,               \* "loading", "ready" (initAutoExtraction ran), "loaded";
                       \* "complete" (loaded before the script started), "late"
                       \* (initAutoExtraction ran on a complete document);
                       \* "failed", "failedLoaded" when initAutoExtraction threw
  loadTimer,           \* ms left on setTimeout(extractAllContent, 1000)
  scrollTimeout,       \* ms left on the pending scroll debounce timer
  lastScrollPosition,
  mutationTimers,      \* ms left on each pending setTimeout(extractAllContent, 500)
  autoRuns,            \* one record per autoScroll command
  extractedContent,
  seenTextBlocks,
  lastReply,           \* << >> or the latest snapshot reply sent
  hist,                \* history, read by the properties only
  popupOpen,           \* popup.js is running in a popup or a standalone window
  pageContent,         \* popup.js: the extractContent reply, or null
  chatHistory,         \* popup.js: the messages of the chat
  currentPageUrl,      \* popup.js: tab.url
  storageLocal,        \* chrome.storage.local: the chat_ keys and their values
  awaiting,            \* popup.js: the queries whose queryAI response is awaited
  popupHist            \* history, read by the properties only

\* the variables of popup.js and of chrome.storage.local
popupVars == << popupOpen, pageContent, chatHistory, currentPageUrl, storageLocal,
                awaiting, popupHist >>

\* the variables of the content script
contentVars == << dom, pageHeight, innerHeight, scrollY, scrollEventPending, clock, phase,
                  loadTimer, scrollTimeout, lastScrollPosition, mutationTimers, autoRuns,
                  extractedContent, seenTextBlocks, lastReply, hist >>

vars == << contentVars, popupVars >>

\* currentPageUrl = null, and a tab without url
NoUrl == << >>

\* pageContent = null
NoContent == "null"

\* popup.js before DOMContentLoaded, chrome.storage.local without chat_ keys
InitPopup ==
  /\ popupOpen = FALSE
  /\ pageContent = NoContent
  /\ chatHistory = << >>
  /\ currentPageUrl = NoUrl
  /\ storageLocal = << >>
  /\ awaiting = << >>
  /\ popupHist = [sent |-> 0, cleared |-> FALSE]

NoTimer == -1

\* extractedAt: '' before the first write
NoTimestamp == -1

PageTitle == "title"

PageUrl == "https://example.org/page"

InitBase ==
  /\ scrollY = 0
  /\ scrollEventPending = FALSE
  /\ clock = 0
  /\ phase = "loading"
  /\ loadTimer = NoTimer
  /\ scrollTimeout = NoTimer
  /\ lastScrollPosition = 0
  /\ mutationTimers = << >>
  /\ autoRuns = << >>
  /\ extractedContent =
       [title |-> "", url |-> "", textContent |-> EmptyStr, images |-> << >>,
        structuredContent |->
          [headings |-> << >>, lists |-> << >>, tables |-> << >>, paragraphs |-> << >>],
        extractedAt |-> NoTimestamp, scrollPositions |-> << >>, isComplete |-> FALSE]
  /\ seenTextBlocks = {}
  /\ lastReply = << >>
  /\ hist = [fresh |-> FALSE, events |-> 0, mutations |-> 0, lastFire |-> << >>,
             disturbed |-> {}, failures |-> 0, sinceEvent |-> NoTimer, gap |-> NoTimer,
             burst |-> 0, loadPasses |-> 0, calls |-> << >>, unheard |-> {}]
  /\ InitPopup

\* history kept by every pass: the document has been scanned as it is now
PassHist(h) == [h EXCEPT !.fresh = TRUE]

(***************************************************************************)
(* Trigger Controller                                                      *)
(***************************************************************************)

LoadDelayMs == 1000

ScrollDebounceMs == 200

ScrollMinMove == 100

BottomMargin == 100

MutationDelayMs == 500

MutationMinText == 50

AutoScrollIntervalMs == 300

AutoBottomMargin == 50

maxScrolls == 50

SnapshotMaxLen == 50000

\* the largest offset the viewport can be scrolled to
MaxScrollY == IF pageHeight > innerHeight THEN pageHeight - innerHeight ELSE 0

\* initAutoExtraction(), on DOMContentLoaded or at once when the document is
\* already parsed
InitAutoExtraction ==
  /\ phase \in {"loading", "complete"}
  /\ \E r \in {extractAllContent([extractedContent EXCEPT !.title = PageTitle, !.url = PageUrl,
                                                  !.extractedAt = clock],
                   seenTextBlocks, dom, clock)} :
       /\ extractedContent' = r.ec
       /\ seenTextBlocks' = r.seen
  /\ phase' = IF phase = "loading" THEN "ready" ELSE "late"
  /\ clock' = clock + 1
  /\ hist' = PassHist(hist)
  /\ UNCHANGED popupVars
  /\ UNCHANGED << dom, pageHeight, innerHeight, scrollY, scrollEventPending, loadTimer,
                  scrollTimeout, lastScrollPosition, mutationTimers, autoRuns, lastReply >>

\* initAutoExtraction() left at line 544 by an exception of the first pass:
\* setupScrollListener() and setupMutationObserver() are not called
InitAutoExtractionThrows(done) ==
  /\ phase = "loading"
  /\ \E r \in {extractAllContentThrows([extractedContent EXCEPT !.title = PageTitle, !.url = PageUrl,
                                                  !.extractedAt = clock],
                   seenTextBlocks, dom, done)} :
       /\ extractedContent' = r.ec
       /\ seenTextBlocks' = r.seen
  /\ phase' = "failed"
  /\ clock' = clock + 1
  /\ hist' = [hist EXCEPT !.failures = @ + 1]
  /\ UNCHANGED popupVars
  /\ UNCHANGED << dom, pageHeight, innerHeight, scrollY, scrollEventPending, loadTimer,
                  scrollTimeout, lastScrollPosition, mutationTimers, autoRuns, lastReply >>

\* the scroll listener and the mutation observer are set up
Listening == phase \in {"ready", "loaded", "late"}

\* the load event of a document whose content script has not started yet (it
\* is injected later, as by the popup's chrome.scripting.executeScript): no
\* listener hears it, and document.readyState is "complete" from now on
LoadBeforeScript ==
  /\ phase = "loading"
  /\ phase' = "complete"
  /\ UNCHANGED popupVars
  /\ UNCHANGED << dom, pageHeight, innerHeight, scrollY, scrollEventPending, clock,
                  loadTimer, scrollTimeout, lastScrollPosition, mutationTimers, autoRuns,
                  extractedContent, seenTextBlocks, lastReply, hist >>

\* the load listener calling extractAllContent with no delay
WindowLoadNoDelay ==
  /\ phase \in {"ready", "failed"}
  /\ phase' = IF phase = "ready" THEN "loaded" ELSE "failedLoaded"
  /\ loadTimer' = 0
  /\ UNCHANGED popupVars
  /\ UNCHANGED << dom, pageHeight, innerHeight, scrollY, scrollEventPending, clock,
                  scrollTimeout, lastScrollPosition, mutationTimers, autoRuns,
                  extractedContent, seenTextBlocks, lastReply, hist >>

\* the window load listener: setTimeout(extractAllContent, 1000)
WindowLoad ==
  /\ phase \in {"ready", "failed"}
  /\ phase' = IF phase = "ready" THEN "loaded" ELSE "failedLoaded"
  /\ loadTimer' = LoadDelayMs
  /\ UNCHANGED popupVars
  /\ UNCHANGED << dom, pageHeight, innerHeight, scrollY, scrollEventPending, clock,
                  scrollTimeout, lastScrollPosition, mutationTimers, autoRuns,
                  extractedContent, seenTextBlocks, lastReply, hist >>

\* the load timer fires: extractAllContent()
LoadTimerFire ==
  /\ loadTimer = 0
  /\ \E r \in {extractAllContent(extractedContent, seenTextBlocks, dom, clock)} :
       /\ extractedContent' = r.ec
       /\ seenTextBlocks' = r.seen
  /\ loadTimer' = NoTimer
  /\ clock' = clock + 1
  /\ hist' = [PassHist(hist) EXCEPT !.loadPasses = @ + 1]
  /\ UNCHANGED popupVars
  /\ UNCHANGED << dom, pageHeight, innerHeight, scrollY, scrollEventPending, phase,
                  scrollTimeout, lastScrollPosition, mutationTimers, autoRuns, lastReply >>

\* the load timer fires and extractAllContent() throws
LoadTimerFireThrows(done) ==
  /\ loadTimer = 0
  /\ \E r \in {extractAllContentThrows(extractedContent, seenTextBlocks, dom, done)} :
       /\ extractedContent' = r.ec
       /\ seenTextBlocks' = r.seen
  /\ loadTimer' = NoTimer
  /\ hist' = [hist EXCEPT !.failures = @ + 1]
  /\ UNCHANGED popupVars
  /\ UNCHANGED << dom, pageHeight, innerHeight, scrollY, scrollEventPending, clock, phase,
                  scrollTimeout, lastScrollPosition, mutationTimers, autoRuns, lastReply >>

\* the user (or the page) scrolls the viewport to offset y
UserScroll(y) ==
  /\ y # scrollY
  /\ y <= MaxScrollY
  /\ scrollY' = y
  /\ scrollEventPending' = TRUE
  /\ hist' = [hist EXCEPT !.events = @ + 1,
                           !.disturbed = @ \cup {r \in 1..Len(autoRuns) : autoRuns[r].active}]
  /\ UNCHANGED popupVars
  /\ UNCHANGED << dom, pageHeight, innerHeight, clock, phase, loadTimer, scrollTimeout,
                  lastScrollPosition, mutationTimers, autoRuns, extractedContent,
                  seenTextBlocks, lastReply >>

\* the listener without clearTimeout: a pending timer is kept as it is
ScrollListenerKeepsTimer ==
  /\ scrollEventPending
  /\ scrollEventPending' = FALSE
  /\ scrollTimeout' = IF Listening /\ scrollTimeout = NoTimer THEN ScrollDebounceMs
                      ELSE scrollTimeout
  /\ hist' = IF Listening
             THEN [hist EXCEPT !.sinceEvent = 0, !.gap = hist.sinceEvent, !.burst = @ + 1]
             ELSE hist
  /\ UNCHANGED popupVars
  /\ UNCHANGED << dom, pageHeight, innerHeight, scrollY, clock, phase, loadTimer,
                  lastScrollPosition, mutationTimers, autoRuns, extractedContent,
                  seenTextBlocks, lastReply >>

\* the scroll event is dispatched; the listener exists once initAutoExtraction
\* has run: clearTimeout(scrollTimeout); scrollTimeout = setTimeout(..., 200)
ScrollListener ==
  /\ scrollEventPending
  /\ scrollEventPending' = FALSE
  /\ scrollTimeout' = IF Listening THEN ScrollDebounceMs ELSE scrollTimeout
  /\ hist' = IF Listening
             THEN [hist EXCEPT !.sinceEvent = 0, !.gap = hist.sinceEvent, !.burst = @ + 1]
             ELSE hist
  /\ UNCHANGED popupVars
  /\ UNCHANGED << dom, pageHeight, innerHeight, scrollY, clock, phase, loadTimer,
                  lastScrollPosition, mutationTimers, autoRuns, extractedContent,
                  seenTextBlocks, lastReply >>

\* the move test with >= in place of >
MovedEnoughInclusive(currentPosition, last) == Abs(currentPosition - last) >= ScrollMinMove

\* the move test against a whole viewport height
MovedEnoughViewport(currentPosition, last) == Abs(currentPosition - last) > innerHeight

\* Math.abs(currentPosition - lastScrollPosition) > 100
MovedEnough(currentPosition, last) == Abs(currentPosition - last) > ScrollMinMove

\* the bottom test left out
NearBottomAlways(y) == TRUE

\* the bottom test with > in place of >=
NearBottomStrict(y) == innerHeight + y > pageHeight - BottomMargin

\* (window.innerHeight + window.scrollY) >= document.body.offsetHeight - 100
NearBottom(y) == innerHeight + y >= pageHeight - BottomMargin

\* isComplete assigned the test's value
CompleteAssigned(isComplete, y) == innerHeight + y >= pageHeight - BottomMargin

\* isComplete after the second if of the debounce callback
CompleteAfterFire(isComplete, y) == IF NearBottom(y) THEN TRUE ELSE isComplete

\* the scroll debounce timer fires
ScrollTimerFire ==
  /\ scrollTimeout = 0
  /\ \E currentPosition \in {scrollY} :
     \E moved \in {MovedEnough(currentPosition, lastScrollPosition)} :
     \E r \in {IF moved
               THEN extractAllContent(extractedContent, seenTextBlocks, dom, clock)
               ELSE [ec |-> extractedContent, seen |-> seenTextBlocks]} :
       /\ extractedContent' =
            [(IF moved
              THEN [r.ec EXCEPT !.scrollPositions =
                      Append(@, [position |-> currentPosition, timestamp |-> clock])]
              ELSE r.ec)
             EXCEPT !.isComplete = CompleteAfterFire(@, scrollY)]
       /\ seenTextBlocks' = r.seen
       /\ clock' = IF moved THEN clock + 1 ELSE clock
       /\ lastScrollPosition' = IF moved THEN currentPosition ELSE lastScrollPosition
       /\ hist' = [(IF moved THEN PassHist(hist) ELSE hist) EXCEPT
                     !.lastFire =
                       << [from |-> lastScrollPosition, at |-> currentPosition,
                           passes |-> clock' - clock,
                           recorded |-> Len(extractedContent'.scrollPositions)
                                          - Len(extractedContent.scrollPositions)] >>,
                     !.sinceEvent = NoTimer, !.gap = NoTimer, !.burst = 0]
  /\ scrollTimeout' = NoTimer
  /\ UNCHANGED popupVars
  /\ UNCHANGED << dom, pageHeight, innerHeight, scrollY, scrollEventPending, phase,
                  loadTimer, mutationTimers, autoRuns, lastReply >>

\* the scroll debounce timer fires and extractAllContent() throws at line 580:
\* lines 581-592 are not reached
ScrollTimerFireThrows(done) ==
  /\ scrollTimeout = 0
  /\ MovedEnough(scrollY, lastScrollPosition)
  /\ \E r \in {extractAllContentThrows(extractedContent, seenTextBlocks, dom, done)} :
       /\ extractedContent' = r.ec
       /\ seenTextBlocks' = r.seen
  /\ scrollTimeout' = NoTimer
  /\ hist' = [hist EXCEPT !.failures = @ + 1, !.sinceEvent = NoTimer, !.gap = NoTimer, !.burst = 0]
  /\ UNCHANGED popupVars
  /\ UNCHANGED << dom, pageHeight, innerHeight, scrollY, scrollEventPending, clock, phase,
                  loadTimer, lastScrollPosition, mutationTimers, autoRuns, lastReply >>

\* a fragment as it sits in the document after off earlier nodes
Rebase(f, off) ==
  [k \in 1..Len(f) |-> [f[k] EXCEPT !.parent = IF @ = 0 THEN 0 ELSE @ + off]]

\* the observer callback's scan of the added nodes: an added element whose
\* trimmed textContent has more than 50 characters
hasNewContent(f) ==
  \E k \in 1..Len(f) :
    /\ f[k].parent = 0
    /\ f[k].tag # "#text"
    /\ StrLen(Trim(textContent(f, k))) > MutationMinText

\* the page appends the fragment f to document.body; the mutation observer,
\* installed by initAutoExtraction, gets the added nodes
AppendFragment(f) ==
  /\ dom' = dom \o Rebase(f, Len(dom))
  /\ mutationTimers' = IF Listening /\ hasNewContent(f)
                       THEN Append(mutationTimers, MutationDelayMs)
                       ELSE mutationTimers
  /\ hist' = [hist EXCEPT !.fresh = FALSE, !.events = @ + 1, !.mutations = @ + 1]
  /\ UNCHANGED popupVars
  /\ UNCHANGED << pageHeight, innerHeight, scrollY, scrollEventPending, clock, phase,
                  loadTimer, scrollTimeout, lastScrollPosition, autoRuns,
                  extractedContent, seenTextBlocks, lastReply >>

\* the index of the last child of document.body, 0 when there is none
LastTopLevel(d) ==
  LET tops == childNodes(d, 0)
  IN IF tops = << >> THEN 0 ELSE tops[Len(tops)]

\* the page removes the last child of document.body with all below it; the
\* observer is called with no added nodes
RemoveLastChild ==
  /\ LastTopLevel(dom) # 0
  /\ dom' = SubSeq(dom, 1, LastTopLevel(dom) - 1)
  /\ hist' = [hist EXCEPT !.fresh = FALSE, !.events = @ + 1, !.mutations = @ + 1]
  /\ UNCHANGED popupVars
  /\ UNCHANGED << pageHeight, innerHeight, scrollY, scrollEventPending, clock, phase,
                  loadTimer, scrollTimeout, lastScrollPosition, mutationTimers, autoRuns,
                  extractedContent, seenTextBlocks, lastReply >>

\* the oldest mutation timer fires: extractAllContent()
MutationTimerFire ==
  /\ mutationTimers # << >>
  /\ Head(mutationTimers) = 0
  /\ \E r \in {extractAllContent(extractedContent, seenTextBlocks, dom, clock)} :
       /\ extractedContent' = r.ec
       /\ seenTextBlocks' = r.seen
  /\ mutationTimers' = Tail(mutationTimers)
  /\ clock' = clock + 1
  /\ hist' = PassHist(hist)
  /\ UNCHANGED popupVars
  /\ UNCHANGED << dom, pageHeight, innerHeight, scrollY, scrollEventPending, phase,
                  loadTimer, scrollTimeout, lastScrollPosition, autoRuns, lastReply >>

\* the oldest mutation timer fires and extractAllContent() throws
MutationTimerFireThrows(done) ==
  /\ mutationTimers # << >>
  /\ Head(mutationTimers) = 0
  /\ \E r \in {extractAllContentThrows(extractedContent, seenTextBlocks, dom, done)} :
       /\ extractedContent' = r.ec
       /\ seenTextBlocks' = r.seen
  /\ mutationTimers' = Tail(mutationTimers)
  /\ hist' = [hist EXCEPT !.failures = @ + 1]
  /\ UNCHANGED popupVars
  /\ UNCHANGED << dom, pageHeight, innerHeight, scrollY, scrollEventPending, clock, phase,
                  loadTimer, scrollTimeout, lastScrollPosition, autoRuns, lastReply >>

\* the step without the factor 0.8
scrollStepWhole == innerHeight

\* const scrollStep = window.innerHeight * 0.8
scrollStep == (innerHeight * 4) \div 5

\* the stop test without the bottom test
AutoScrollDoneCapOnly(y, scrollCount) == scrollCount >= maxScrolls

\* the stop test without the cap
AutoScrollDoneBottomOnly(y, scrollCount) == innerHeight + y >= pageHeight - AutoBottomMargin

\* the stop test of the interval callback, after scrollBy and scrollCount++
AutoScrollDone(y, scrollCount) ==
  innerHeight + y >= pageHeight - AutoBottomMargin \/ scrollCount >= maxScrolls

\* message autoScroll: autoScrollPage() starts its interval
AutoScrollMsg ==
  /\ autoRuns' = Append(autoRuns, [active |-> TRUE, wait |-> AutoScrollIntervalMs,
                                   scrollCount |-> 0, replies |-> 0, endY |-> NoTimer])
  /\ hist' = [hist EXCEPT !.events = @ + 1,
                           !.unheard = IF Listening THEN @ ELSE @ \cup {Len(autoRuns) + 1}]
  /\ UNCHANGED popupVars
  /\ UNCHANGED << dom, pageHeight, innerHeight, scrollY, scrollEventPending, clock, phase,
                  loadTimer, scrollTimeout, lastScrollPosition, mutationTimers,
                  extractedContent, seenTextBlocks, lastReply >>

\* the run record at its last step, resolve() left out
EndedRunUnresolved(run, count) ==
  [run EXCEPT !.active = FALSE, !.scrollCount = count, !.endY = 0]

\* the run record after its last step: clearInterval, scrollTo(0, 0) and
\* resolve(), whose then() sends the success reply before any other task
EndedRun(run, count) ==
  [run EXCEPT !.active = FALSE, !.scrollCount = count, !.replies = @ + 1, !.endY = 0]

\* the interval callback of run r
AutoScrollStep(r) ==
  /\ autoRuns[r].active
  /\ autoRuns[r].wait = 0
  /\ LET y1 == Min(scrollY + scrollStep, MaxScrollY)
         count == autoRuns[r].scrollCount + 1
         done == AutoScrollDone(y1, count)
     IN /\ scrollY' = IF done THEN 0 ELSE y1
        /\ scrollEventPending' =
             (scrollEventPending \/ y1 # scrollY \/ (done /\ y1 # 0))
        /\ autoRuns' = [autoRuns EXCEPT ![r] =
             IF done
             THEN EndedRun(@, count)
             ELSE [@ EXCEPT !.scrollCount = count, !.wait = AutoScrollIntervalMs]]
        /\ extractedContent' =
             IF done THEN [extractedContent EXCEPT !.isComplete = TRUE]
             ELSE extractedContent
        /\ hist' = [hist EXCEPT !.disturbed =
             @ \cup {q \in 1..Len(autoRuns) : q # r /\ autoRuns[q].active}]
  /\ UNCHANGED popupVars
  /\ UNCHANGED << dom, pageHeight, innerHeight, clock, phase, loadTimer, scrollTimeout,
                  lastScrollPosition, mutationTimers, seenTextBlocks, lastReply >>

\* the reply without the cut
SnapshotWhole(ec) == ec

\* the extractContent reply
Snapshot(ec) == [ec EXCEPT !.textContent = Substring0(@, SnapshotMaxLen)]

\* extractContent answered after a pass run on demand
ExtractContentMsgOnDemand ==
  /\ \E r \in {extractAllContent(extractedContent, seenTextBlocks, dom, clock)} :
       /\ extractedContent' = r.ec
       /\ seenTextBlocks' = r.seen
       /\ lastReply' = << [action |-> "extractContent", content |-> Snapshot(r.ec)] >>
  /\ clock' = clock + 1
  /\ UNCHANGED popupVars
  /\ UNCHANGED << dom, pageHeight, innerHeight, scrollY, scrollEventPending, phase,
                  loadTimer, scrollTimeout, lastScrollPosition, mutationTimers, autoRuns,
                  hist >>

\* message extractContent
ExtractContentMsg ==
  /\ lastReply' = << [action |-> "extractContent", content |-> Snapshot(extractedContent)] >>
  /\ UNCHANGED popupVars
  /\ UNCHANGED << dom, pageHeight, innerHeight, scrollY, scrollEventPending, clock, phase,
                  loadTimer, scrollTimeout, lastScrollPosition, mutationTimers, autoRuns,
                  extractedContent, seenTextBlocks, hist >>

\* the reply cut like the extractContent reply
FullContentCut(ec) == [ec EXCEPT !.textContent = Substring0(@, SnapshotMaxLen)]

\* the getFullContent reply: sendResponse(extractedContent)
FullContent(ec) == ec

\* message getFullContent
GetFullContentMsg ==
  /\ lastReply' = << [action |-> "getFullContent", content |-> FullContent(extractedContent)] >>
  /\ UNCHANGED popupVars
  /\ UNCHANGED << dom, pageHeight, innerHeight, scrollY, scrollEventPending, clock, phase,
                  loadTimer, scrollTimeout, lastScrollPosition, mutationTimers, autoRuns,
                  extractedContent, seenTextBlocks, hist >>

\* the ms left on each pending timer
Waits ==
  ({loadTimer, scrollTimeout} \ {NoTimer})
    \cup {mutationTimers[k] : k \in 1..Len(mutationTimers)}
    \cup {autoRuns[r].wait : r \in {q \in 1..Len(autoRuns) : autoRuns[q].active}}

\* d ms pass, or less when a timer is due sooner; no time passes while a timer
\* is due or a scroll event is pending
Advance(d) ==
  /\ ~scrollEventPending
  /\ Waits # {}
  /\ \A w \in Waits : w > 0
  /\ LET e == IF \E w \in Waits : w <= d
              THEN CHOOSE w \in Waits : \A u \in Waits : w <= u
              ELSE d
     IN /\ loadTimer' = IF loadTimer = NoTimer THEN NoTimer ELSE loadTimer - e
        /\ scrollTimeout' = IF scrollTimeout = NoTimer THEN NoTimer ELSE scrollTimeout - e
        /\ mutationTimers' = [k \in 1..Len(mutationTimers) |-> mutationTimers[k] - e]
        /\ autoRuns' = [r \in 1..Len(autoRuns) |->
             IF autoRuns[r].active THEN [autoRuns[r] EXCEPT !.wait = @ - e]
             ELSE autoRuns[r]]
        /\ hist' = [hist EXCEPT !.sinceEvent = IF @ = NoTimer THEN NoTimer ELSE @ + e]
  /\ UNCHANGED popupVars
  /\ UNCHANGED << dom, pageHeight, innerHeight, scrollY, scrollEventPending, clock, phase,
                  lastScrollPosition, extractedContent, seenTextBlocks, lastReply >>

(***************************************************************************)
(* Documents and fragments                                                 *)
(***************************************************************************)

\* Array.includes on a sequence
SeqIncludes(seq, x) == \E k \in 1..Len(seq) : seq[k] = x

\* a short page: a paragraph of 12 characters and a div of 11
SmallPage ==
  << Elem("p", 0), TextNode(1, Rep(97, 12)),
     Elem("div", 0), TextNode(3, Rep(98, 11)) >>

\* three paragraphs of 40, 15 and 60 characters and nothing else
ThreeParagraphs ==
  << Elem("p", 0), TextNode(1, Rep(97, 40)),
     Elem("p", 0), TextNode(3, Rep(98, 15)),
     Elem("p", 0), TextNode(5, Rep(99, 60)) >>

\* an article of 587 characters: headings (one repeated, one of 200
\* characters, one empty), paragraphs of 306 and 15 characters, a blockquote
\* around a paragraph, a list
ArticlePage ==
  << Elem("article", 0),
     Elem("h1", 1), TextNode(2, Rep(72, 12)),
     Elem("p", 1),
     TextNode(4, << [c |-> 32, n |-> 2], [c |-> 97, n |-> 300], [c |-> 10, n |-> 2],
                    [c |-> 98, n |-> 5], [c |-> 32, n |-> 1] >>),
     Elem("p", 1), TextNode(6, Rep(101, 15)),
     Elem("h2", 1), TextNode(8, Rep(72, 12)),
     Elem("h2", 1), TextNode(10, Rep(103, 200)),
     Elem("h3", 1),
     Elem("blockquote", 1), Elem("p", 13), TextNode(14, Rep(113, 30)),
     Elem("ul", 1), Elem("li", 16), TextNode(17, Rep(105, 12)) >>

SiteImage(name) == << "https:", "example.org", name >>

\* a paragraph and seven images: 80x80, 200x300, the same 200x300 once more,
\* 300x80, a tainted 600x400, a 300x300 tracking image, 1024x768
ImagePage ==
  << Elem("p", 0), TextNode(1, Rep(97, 25)),
     Img(0, SiteImage("icon.png"), 80, 80, FALSE),
     Img(0, SiteImage("photo.jpg"), 200, 300, FALSE),
     Img(0, SiteImage("photo.jpg"), 200, 300, FALSE),
     Img(0, SiteImage("strip.png"), 300, 80, FALSE),
     Img(0, << "https:", "cdn.example.net", "banner.jpg" >>, 600, 400, TRUE),
     Img(0, << "https:", "example.org", "tracking", "t.gif" >>, 300, 300, FALSE),
     Img(0, SiteImage("wide.jpg"), 1024, 768, FALSE) >>

\* six different images of 150x150
GalleryPage ==
  << Img(0, SiteImage("one.jpg"), 150, 150, FALSE),
     Img(0, SiteImage("two.jpg"), 150, 150, FALSE),
     Img(0, SiteImage("three.jpg"), 150, 150, FALSE),
     Img(0, SiteImage("four.jpg"), 150, 150, FALSE),
     Img(0, SiteImage("five.jpg"), 150, 150, FALSE),
     Img(0, SiteImage("six.jpg"), 150, 150, FALSE) >>

\* one text of 50001 characters
LongPage == << Elem("div", 0), TextNode(1, Rep(100, 50001)) >>

\* a paragraph of 51 characters
FragParagraph == << Elem("p", 0), TextNode(1, Rep(112, 51)) >>

\* a span of 11 characters
FragSpan == << Elem("span", 0), TextNode(1, Rep(115, 11)) >>

\* a heading of 12 characters
FragHeading == << Elem("h2", 0), TextNode(1, Rep(78, 12)) >>

\* an image already on ImagePage and a new one
FragImages ==
  << Img(0, SiteImage("photo.jpg"), 200, 300, FALSE),
     Img(0, SiteImage("chart.png"), 120, 100, FALSE) >>

(***************************************************************************)
(* Spec: the trigger controller on a short page of two viewport heights.   *)
(* MaxEvents bounds the outside events of a behaviour: user scrolls, DOM   *)
(* mutations and autoScroll commands.                                      *)
(***************************************************************************)

MaxEvents == 2

ViewportHeight == 500

ScrollOffsets == {0, 50, 150, 450}

\* the page is two viewports high, or fits in the viewport
Init ==
  /\ InitBase
  /\ dom = SmallPage
  /\ innerHeight = ViewportHeight
  /\ pageHeight \in {2 * ViewportHeight, ViewportHeight}

Next ==
  \/ InitAutoExtraction
  \/ WindowLoad
  \/ LoadTimerFire
  \/ \E y \in ScrollOffsets : hist.events < MaxEvents /\ UserScroll(y)
  \/ ScrollListener
  \/ ScrollTimerFire
  \/ \E f \in {FragParagraph, FragSpan} : hist.events < MaxEvents /\ AppendFragment(f)
  \/ hist.events < MaxEvents /\ RemoveLastChild
  \/ MutationTimerFire
  \/ hist.events < MaxEvents /\ AutoScrollMsg
  \/ \E r \in 1..Len(autoRuns) : AutoScrollStep(r)
  \/ Advance(LoadDelayMs)

Spec == Init /\ [][Next]_vars

(***************************************************************************)
(* SpecPass: extraction passes over changing documents.  RunPass is        *)
(* extractAllContent() called by whichever trigger; MaxPasses bounds the   *)
(* passes of a behaviour.                                                  *)
(***************************************************************************)

MaxPasses == 3

\* extractAllContent(), called by any of its triggers
RunPass ==
  /\ \E r \in {extractAllContent(extractedContent, seenTextBlocks, dom, clock)} :
       /\ extractedContent' = r.ec
       /\ seenTextBlocks' = r.seen
  /\ clock' = clock + 1
  /\ hist' = PassHist(hist)
  /\ UNCHANGED popupVars
  /\ UNCHANGED << dom, pageHeight, innerHeight, scrollY, scrollEventPending, phase,
                  loadTimer, scrollTimeout, lastScrollPosition, mutationTimers, autoRuns,
                  lastReply >>

\* text nodes of 9, 10 and 11 characters in divs, one of 30 characters in a
\* nav and one of 30 characters in a hidden div
WalkerPage ==
  << Elem("div", 0), TextNode(1, Rep(120, 9)),
     Elem("div", 0), TextNode(3, Rep(121, 10)),
     Elem("div", 0), TextNode(5, Rep(119, 11)),
     Elem("nav", 0), TextNode(7, Rep(110, 30)),
     [Elem("div", 0) EXCEPT !.hidden = TRUE], TextNode(9, Rep(104, 30)) >>

PassPages == {ThreeParagraphs, ArticlePage, ImagePage, GalleryPage, LongPage, WalkerPage}

PassFragments == {FragParagraph, FragHeading, FragImages}

InitPass ==
  /\ InitBase
  /\ dom \in PassPages
  /\ innerHeight = ViewportHeight
  /\ pageHeight = 2 * ViewportHeight

NextPass ==
  \/ clock < MaxPasses /\ RunPass
  \/ \E f \in PassFragments : hist.events < MaxEvents /\ AppendFragment(f)
  \/ hist.events < MaxEvents /\ RemoveLastChild
  \/ ExtractContentMsg
  \/ GetFullContentMsg

SpecPass == InitPass /\ [][NextPass]_vars
(***************************************************************************)
(* SpecAuto: auto-scroll on a page of ten viewport heights                 *)
(***************************************************************************)

InitAuto ==
  /\ InitBase
  /\ dom = SmallPage
  /\ innerHeight = ViewportHeight
  /\ pageHeight = 10 * ViewportHeight

\* one autoScroll command; the user may scroll back to the top meanwhile
NextAuto ==
  \/ InitAutoExtraction
  \/ hist.events < MaxEvents /\ UserScroll(0)
  \/ ScrollListener
  \/ ScrollTimerFire
  \/ hist.events < MaxEvents /\ autoRuns = << >> /\ AutoScrollMsg
  \/ \E r \in 1..Len(autoRuns) : AutoScrollStep(r)
  \/ Advance(LoadDelayMs)

SpecAuto == InitAuto /\ [][NextAuto]_vars

(***************************************************************************)
(* SpecTall: one auto-scroll run on a short, a ten-viewport and a tall     *)
(* page, left alone; the timers that are due do fire                       *)
(***************************************************************************)

\* viewport heights of the tall page: more than 50 steps of 0.8 viewports
TallViewports == 45

InitTall ==
  /\ InitBase
  /\ dom = SmallPage
  /\ innerHeight = ViewportHeight
  /\ pageHeight \in {2 * ViewportHeight - 60, 10 * ViewportHeight,
                     TallViewports * ViewportHeight}

NextTall ==
  \/ InitAutoExtraction
  \/ ScrollListener
  \/ ScrollTimerFire
  \/ autoRuns = << >> /\ AutoScrollMsg
  \/ \E r \in 1..Len(autoRuns) : AutoScrollStep(r)
  \/ Advance(LoadDelayMs)

\* a scroll event is dispatched, a timer that is due fires, time passes
FairTall ==
  /\ WF_vars(ScrollListener)
  /\ WF_scrollTimeout(scrollTimeout = 0 /\ scrollTimeout' = NoTimer)
  /\ WF_vars(\E r \in 1..Len(autoRuns) : AutoScrollStep(r))
  /\ WF_vars(Advance(LoadDelayMs))

SpecTall == InitTall /\ [][NextTall]_vars /\ FairTall

(***************************************************************************)
(* SpecFail: the trigger controller when a pass can throw                  *)
(***************************************************************************)

MaxFailures == 1

InitFail ==
  /\ InitBase
  /\ dom = SmallPage
  /\ innerHeight = ViewportHeight
  /\ pageHeight = 2 * ViewportHeight

NextFail ==
  \/ InitAutoExtraction
  \/ WindowLoad
  \/ LoadTimerFire
  \/ hist.events < MaxEvents /\ UserScroll(150)
  \/ ScrollListener
  \/ ScrollTimerFire
  \/ hist.events < MaxEvents /\ AppendFragment(FragParagraph)
  \/ MutationTimerFire
  \/ Advance(LoadDelayMs)
  \/ \E done \in ThrowPoints :
       hist.failures < MaxFailures /\ InitAutoExtractionThrows(done)
  \/ \E done \in ThrowPoints :
       hist.failures < MaxFailures /\ LoadTimerFireThrows(done)
  \/ \E done \in ThrowPoints :
       hist.failures < MaxFailures /\ ScrollTimerFireThrows(done)
  \/ \E done \in ThrowPoints :
       hist.failures < MaxFailures /\ MutationTimerFireThrows(done)

SpecFail == InitFail /\ [][NextFail]_vars

(***************************************************************************)
(* SpecMsg: snapshot requests while the controller and an auto-scroll run  *)
(***************************************************************************)

InitMsg ==
  /\ InitBase
  /\ dom = SmallPage
  /\ innerHeight = ViewportHeight
  /\ pageHeight = 2 * ViewportHeight

NextMsg ==
  \/ InitAutoExtraction
  \/ WindowLoad
  \/ LoadTimerFire
  \/ ScrollListener
  \/ ScrollTimerFire
  \/ hist.events < MaxEvents /\ AppendFragment(FragParagraph)
  \/ MutationTimerFire
  \/ hist.events < MaxEvents /\ autoRuns = << >> /\ AutoScrollMsg
  \/ \E r \in 1..Len(autoRuns) : AutoScrollStep(r)
  \/ Advance(LoadDelayMs)
  \/ ExtractContentMsg
  \/ GetFullContentMsg

SpecMsg == InitMsg /\ [][NextMsg]_vars

(***************************************************************************)
(* popup.js: the chat and its history in chrome.storage.local.  A url is   *)
(* its sequence of character codes; tab.url is ASCII.                      *)
(***************************************************************************)

\* the code of "=" in the output of btoa; the 64 characters of the base64
\* alphabet are named by their values 0..63
PadChar == 64

\* btoa(s): every three bytes give four characters, the last group is padded
btoa(s) ==
  [i \in 1..(4 * ((Len(s) + 2) \div 3)) |->
     LET g == (i - 1) \div 4
         Byte(k) == IF 3 * g + k <= Len(s) THEN s[3 * g + k] ELSE 0
     IN CASE (i - 1) % 4 = 0 -> Byte(1) \div 4
          [] (i - 1) % 4 = 1 -> (Byte(1) % 4) * 16 + (Byte(2) \div 16)
          [] (i - 1) % 4 = 2 -> IF 3 * g + 2 > Len(s) THEN PadChar
                                ELSE (Byte(2) % 16) * 4 + (Byte(3) \div 64)
          [] OTHER -> IF 3 * g + 3 > Len(s) THEN PadChar ELSE Byte(3) % 64]

ChatKeyLen == 50

\* `chat_${btoa(currentPageUrl).substring(0, 50)}`
ChatKey(pageUrl) ==
  [prefix |-> "chat_",
   b64 |-> SubSeq(btoa(pageUrl), 1, Min(ChatKeyLen, Len(btoa(pageUrl))))]

\* result[key] of chrome.storage.local.get(key), << >> when there is none
StorageGet(key) ==
  IF key \in DOMAIN storageLocal THEN storageLocal[key] ELSE << >>

\* chrome.storage.local.set({ [key]: value })
StorageSet(key, value) ==
  [k \in DOMAIN storageLocal \cup {key} |-> IF k = key THEN value ELSE storageLocal[k]]

\* chrome.storage.local.remove(key)
StorageRemove(key) == [k \in DOMAIN storageLocal \ {key} |-> storageLocal[k]]

\* "https://www.example.org/articles/2024/first"
UrlFirst ==
  << 104, 116, 116, 112, 115, 58, 47, 47, 119, 119, 119, 46, 101, 120, 97,
     109, 112, 108, 101, 46, 111, 114, 103, 47, 97, 114, 116, 105, 99, 108,
     101, 115, 47, 50, 48, 50, 52, 47, 102, 105, 114, 115, 116 >>

\* "https://www.example.org/articles/2024/second"
UrlSecond ==
  << 104, 116, 116, 112, 115, 58, 47, 47, 119, 119, 119, 46, 101, 120, 97,
     109, 112, 108, 101, 46, 111, 114, 103, 47, 97, 114, 116, 105, 99, 108,
     101, 115, 47, 50, 48, 50, 52, 47, 115, 101, 99, 111, 110, 100 >>

\* "https://example.org/"
UrlOther ==
  << 104, 116, 116, 112, 115, 58, 47, 47, 101, 120, 97, 109, 112, 108, 101,
     46, 111, 114, 103, 47 >>

PageUrls == {UrlFirst, UrlSecond, UrlOther}

QueryTexts == {"summarize", "explain"}

\* what the user types on a page: the text of a query names its page
Query(pageUrl, text) == [page |-> pageUrl, text |-> text]

\* response.data of a successful queryAI
Answer(query) == [page |-> query.page, text |-> "answer"]

\* DOMContentLoaded: loadCurrentPageInfo() sets currentPageUrl, loads the chat
\* history of the page and asks the content script for the page content;
\* pc is what extractPageContent() obtained
PopupOpen(pageUrl, pc) ==
  /\ ~popupOpen
  /\ popupOpen' = TRUE
  /\ currentPageUrl' = pageUrl
  /\ chatHistory' = IF pageUrl = NoUrl THEN chatHistory ELSE StorageGet(ChatKey(pageUrl))
  /\ pageContent' = pc
  /\ awaiting' = << >>
  /\ popupHist' = [popupHist EXCEPT !.cleared = FALSE]
  /\ UNCHANGED storageLocal
  /\ UNCHANGED contentVars

\* the popup window closes: its script and the responses it awaits are gone
PopupClose ==
  /\ popupOpen
  /\ popupOpen' = FALSE
  /\ currentPageUrl' = NoUrl
  /\ chatHistory' = << >>
  /\ pageContent' = NoContent
  /\ awaiting' = << >>
  /\ popupHist' = [popupHist EXCEPT !.cleared = FALSE]
  /\ UNCHANGED storageLocal
  /\ UNCHANGED contentVars

\* handleSendQuery() up to its await: the query is pushed and sent
HandleSendQuery(text) ==
  /\ popupOpen
  /\ pageContent # NoContent
  /\ chatHistory' = Append(chatHistory, [role |-> "user",
                                          content |-> Query(currentPageUrl, text)])
  /\ awaiting' = Append(awaiting, Query(currentPageUrl, text))
  /\ popupHist' = [popupHist EXCEPT !.sent = @ + 1, !.cleared = FALSE]
  /\ UNCHANGED << popupOpen, pageContent, currentPageUrl, storageLocal >>
  /\ UNCHANGED contentVars

\* handleSendQuery() after its await, for the i-th awaited query: on success
\* the answer is pushed and saveChatHistory() stores chatHistory
QueryResponse(i, success) ==
  /\ popupOpen
  /\ i \in 1..Len(awaiting)
  /\ awaiting' = [k \in 1..(Len(awaiting) - 1) |->
                    IF k < i THEN awaiting[k] ELSE awaiting[k + 1]]
  /\ chatHistory' =
       IF success
       THEN Append(chatHistory, [role |-> "assistant", content |-> Answer(awaiting[i])])
       ELSE chatHistory
  /\ storageLocal' =
       IF success /\ currentPageUrl # NoUrl
       THEN StorageSet(ChatKey(currentPageUrl), chatHistory')
       ELSE storageLocal
  /\ UNCHANGED << popupOpen, pageContent, currentPageUrl, popupHist >>
  /\ UNCHANGED contentVars

\* clearChat()
ClearChat ==
  /\ popupOpen
  /\ chatHistory' = << >>
  /\ storageLocal' = IF currentPageUrl # NoUrl
                     THEN StorageRemove(ChatKey(currentPageUrl))
                     ELSE storageLocal
  /\ popupHist' = [popupHist EXCEPT !.cleared = TRUE]
  /\ UNCHANGED << popupOpen, pageContent, currentPageUrl, awaiting >>
  /\ UNCHANGED contentVars

(***************************************************************************)
(* SpecPopup: the popup opened on pages, queries, answers and Clear.       *)
(* MaxQueries bounds the queries of a behaviour.                           *)
(***************************************************************************)

MaxQueries == 2

InitChat ==
  /\ InitBase
  /\ dom = SmallPage
  /\ innerHeight = ViewportHeight
  /\ pageHeight = 2 * ViewportHeight

NextChat ==
  \/ \E pageUrl \in PageUrls \cup {NoUrl}, pc \in {"content", NoContent} :
       PopupOpen(pageUrl, pc)
  \/ PopupClose
  \/ \E text \in QueryTexts : popupHist.sent < MaxQueries /\ HandleSendQuery(text)
  \/ \E i \in 1..Len(awaiting), success \in BOOLEAN : QueryResponse(i, success)
  \/ ClearChat

SpecPopup == InitChat /\ [][NextChat]_vars

(***************************************************************************)
(* SpecBurst: scroll events in bursts, the time passing in steps of        *)
(* BurstTick ms, on a page of two viewport heights and on one that is      *)
(* 150px higher than the viewport                                          *)
(***************************************************************************)

BurstTick == 50

InitBurst ==
  /\ InitBase
  /\ dom = SmallPage
  /\ innerHeight = ViewportHeight
  /\ pageHeight \in {2 * ViewportHeight, ViewportHeight + 150}

NextBurst ==
  \/ InitAutoExtraction
  \/ \E y \in ScrollOffsets : hist.events < MaxEvents + 1 /\ UserScroll(y)
  \/ ScrollListener
  \/ ScrollTimerFire
  \/ Advance(BurstTick)

SpecBurst == InitBurst /\ [][NextBurst]_vars

(***************************************************************************)
(* SpecLoad: the start of the content script before or after the load      *)
(* event of its document                                                   *)
(***************************************************************************)

InitLoad ==
  /\ InitBase
  /\ dom = SmallPage
  /\ innerHeight = ViewportHeight
  /\ pageHeight = 2 * ViewportHeight

NextLoad ==
  \/ LoadBeforeScript
  \/ InitAutoExtraction
  \/ WindowLoad
  \/ LoadTimerFire
  \/ \E y \in ScrollOffsets : hist.events < MaxEvents /\ UserScroll(y)
  \/ ScrollListener
  \/ ScrollTimerFire
  \/ Advance(LoadDelayMs)

SpecLoad == InitLoad /\ [][NextLoad]_vars

(***************************************************************************)
(* SpecDedup: isDuplicate called on texts, from an empty seenTextBlocks.   *)
(* MaxCalls bounds the calls of a behaviour.                               *)
(***************************************************************************)

MaxCalls == 3

\* 100 a and 20 b; 100 a and 5 c; 99 a and b; 5 b; "Aa"; "BB"
DedupTexts ==
  << Concat(Rep(97, 100), Rep(98, 20)), Concat(Rep(97, 100), Rep(99, 5)),
     Concat(Rep(97, 99), Rep(98, 1)), Rep(98, 5),
     Concat(Rep(65, 1), Rep(97, 1)), Rep(66, 2) >>

\* one call of isDuplicate(text)
IsDuplicateCall(text) ==
  /\ seenTextBlocks' = isDuplicate(text, seenTextBlocks).seen
  /\ hist' = [hist EXCEPT !.calls =
               Append(@, [text |-> text, dup |-> isDuplicate(text, seenTextBlocks).dup])]
  /\ UNCHANGED popupVars
  /\ UNCHANGED << dom, pageHeight, innerHeight, scrollY, scrollEventPending, clock, phase,
                  loadTimer, scrollTimeout, lastScrollPosition, mutationTimers, autoRuns,
                  extractedContent, lastReply >>

InitDedup ==
  /\ InitBase
  /\ dom = SmallPage
  /\ innerHeight = ViewportHeight
  /\ pageHeight = 2 * ViewportHeight

NextDedup ==
  \E k \in 1..Len(DedupTexts) : Len(hist.calls) < MaxCalls /\ IsDuplicateCall(DedupTexts[k])

SpecDedup == InitDedup /\ [][NextDedup]_vars

(***************************************************************************)
(* SpecOverlap: autoScroll commands that arrive while a run is under way,  *)
(* on a ten-viewport and a tall page, while the document is still loading: *)
(* the message listener is registered when the script is evaluated, the    *)
(* scroll listener only by initAutoExtraction, so the scroll events of the *)
(* runs start no timer and no pass; the interval callbacks read and write  *)
(* nothing that a pass touches.  The interval timers that are due do fire. *)
(***************************************************************************)

InitOverlap ==
  /\ InitBase
  /\ dom = SmallPage
  /\ innerHeight = ViewportHeight
  /\ pageHeight \in {10 * ViewportHeight, TallViewports * ViewportHeight}

\* the number of commands
MaxRuns == 2

\* a further command arrives before the first run has made this many increments
MaxLead == 3

\* a command may arrive at the start of an interval or half way through it
NextOverlap ==
  \/ ScrollListener
  \/ /\ Len(autoRuns) < MaxRuns
     /\ autoRuns # << >> => autoRuns[1].scrollCount < MaxLead
     /\ AutoScrollMsg
  \/ \E r \in 1..Len(autoRuns) : AutoScrollStep(r)
  \/ Advance(AutoScrollIntervalMs \div 2)

FairOverlap ==
  /\ WF_vars(ScrollListener)
  /\ WF_vars(\E r \in 1..Len(autoRuns) : AutoScrollStep(r))
  /\ WF_vars(Advance(AutoScrollIntervalMs \div 2))

SpecOverlap == InitOverlap /\ [][NextOverlap]_vars /\ FairOverlap

(***************************************************************************)
(* SpecTable: passes over documents with tables, with lists and with       *)
(* several articles.  TablePage(rows, cellLen)                             *)
(* is an article with a paragraph of 510 characters and a table of rows    *)
(* rows; row k has one cell, three times the character of code 64 + k; the *)
(* first row has before it a cell of cellLen characters z.                 *)
(***************************************************************************)

TablePage(rows, cellLen) ==
  << Elem("article", 0), Elem("p", 1), TextNode(2, Rep(97, 510)), Elem("table", 1),
     Elem("tr", 4), Elem("td", 5), TextNode(6, Rep(122, cellLen)),
     Elem("td", 5), TextNode(8, Rep(65, 3)) >>
    \o [i \in 1..(3 * (rows - 1)) |->
         LET k == 2 + ((i - 1) \div 3)
         IN CASE i % 3 = 1 -> Elem("tr", 4)
              [] i % 3 = 2 -> Elem("td", 9 + i - 1)
              [] OTHER -> TextNode(9 + i - 1, Rep(64 + k, 3))]

TablePages == {TablePage(20, 199), TablePage(21, 200), TablePage(22, 201)}

\* two articles, the first with a paragraph of 30 characters, the second with
\* one of 510, and a div of 15 characters outside them
TwoArticles ==
  << Elem("article", 0), Elem("p", 1), TextNode(2, Rep(113, 30)),
     Elem("article", 0), Elem("p", 4), TextNode(5, Rep(114, 510)),
     Elem("div", 0), TextNode(7, Rep(117, 15)) >>

\* eleven lists of items of 6 characters: a ul of 21 items, an ol whose one
\* item holds a nested ul of one item, and eight more ul of one item each
ListPage ==
  << Elem("ul", 0) >>
    \o [i \in 1..42 |-> IF i % 2 = 1 THEN Elem("li", 1)
                        ELSE TextNode(i, Rep(64 + (i \div 2), 6))]
    \o << Elem("ol", 0), Elem("li", 44), TextNode(45, Rep(102, 6)),
          Elem("ul", 45), Elem("li", 47), TextNode(48, Rep(120, 6)) >>
    \o [i \in 1..24 |->
         CASE i % 3 = 1 -> Elem("ul", 0)
           [] i % 3 = 2 -> Elem("li", 49 + i - 1)
           [] OTHER -> TextNode(49 + i - 1, Rep(103 + ((i - 1) \div 3), 6))]

\* an article of six paragraphs (510 characters, then five of 30) whose later
\* elements repeat paragraph texts: a heading, a list item and a one-cell
\* table with the text of the second, third and fourth paragraph, a
\* blockquote around the fifth paragraph and a dd around the sixth
RepeatPage ==
  << Elem("article", 0),
     Elem("p", 1), TextNode(2, Rep(97, 510)),
     Elem("p", 1), TextNode(4, Rep(98, 30)),
     Elem("p", 1), TextNode(6, Rep(99, 30)),
     Elem("p", 1), TextNode(8, Rep(100, 30)),
     Elem("h2", 1), TextNode(10, Rep(98, 30)),
     Elem("ul", 1), Elem("li", 12), TextNode(13, Rep(99, 30)),
     Elem("table", 1), Elem("tr", 15), Elem("td", 16), TextNode(17, Rep(100, 30)),
     Elem("blockquote", 1), Elem("p", 19), TextNode(20, Rep(101, 30)),
     Elem("dl", 1), Elem("dd", 22), Elem("p", 23), TextNode(24, Rep(102, 30)) >>

InitTable ==
  /\ InitBase
  /\ dom \in TablePages \cup {TwoArticles, ListPage, RepeatPage}
  /\ innerHeight = ViewportHeight
  /\ pageHeight = 2 * ViewportHeight

SpecTable == InitTable /\ [][NextPass]_vars

(***************************************************************************)
(* Properties                                                              *)
(***************************************************************************)

\* a is a prefix of b
IsStrPrefix(a, b) ==
  \/ a = << >>
  \/ /\ Len(a) <= Len(b)
     /\ \A k \in 1..(Len(a) - 1) : a[k] = b[k]
     /\ a[Len(a)].c = b[Len(a)].c
     /\ a[Len(a)].n <= b[Len(a)].n

\* the text log made of the given blocks
Blocks(ts) == ConcatAll([k \in 1..Len(ts) |-> Concat(ts[k], NL)])

\* C1: whatever the trigger, the text log before a step is a prefix of the
\* text log after it: nothing already appended is removed, moved or rewritten
C1_AppendOnly ==
  [][IsStrPrefix(extractedContent.textContent, extractedContent'.textContent)]_vars

\* C1 witness: a later pass has appended to the log the first pass left
C1_Witness ==
  LET first == Blocks(<< Rep(97, 12), Rep(98, 11) >>)
  IN /\ IsStrPrefix(first, extractedContent.textContent)
     /\ StrLen(extractedContent.textContent) > StrLen(first)

\* C2: a pass over a document that has not changed since the previous pass
\* leaves the text log as it is
C2_SecondPassAddsNothing ==
  [][(hist.fresh /\ clock' = clock + 1)
       => extractedContent'.textContent = extractedContent.textContent]_vars

\* C2 witness: two passes over the unchanged article (strategy scan) have run
C2_Witness ==
  /\ dom = ArticlePage
  /\ hist.events = 0
  /\ clock >= 2
  /\ extractedContent.textContent # EmptyStr

\* C3: no two entries of images have the same src
C3_UniqueSrc ==
  \A i, j \in 1..Len(extractedContent.images) :
    i # j => extractedContent.images[i].src # extractedContent.images[j].src

\* the heading elements of the document, in order, each with its level and
\* normalized text
DocumentHeadings(d) ==
  LET hs == querySelectorAll(d, 0, HeadingTags)
  IN [k \in 1..Len(hs) |->
        [level |-> HeadingLevel(d[hs[k]].tag), text |-> cleanText(textContent(d, hs[k]))]]

\* hs without the entries whose text an earlier entry has
FirstOccurrences(hs) ==
  LET Keep(k) == \A n \in 1..(k - 1) : hs[n].text # hs[k].text
      ks == Filter(1, Len(hs), Keep)
  IN [k \in 1..Len(ks) |-> hs[ks[k]]]

\* C4 as claimed: after a pass, headings is the document's heading list with
\* later repeats removed, no heading left out
C4_AllHeadings ==
  hist.fresh =>
    extractedContent.structuredContent.headings = FirstOccurrences(DocumentHeadings(dom))

\* C4 amended: after a pass, headings is the list of the document's headings
\* whose normalized text is not empty and shorter than 200 characters, with
\* later repeats removed, and nothing from earlier passes
C4_ListedHeadings ==
  LET Listed(h) == h.text # EmptyStr /\ StrLen(h.text) < 200
  IN hist.fresh =>
       extractedContent.structuredContent.headings
         = FirstOccurrences(SelectSeq(DocumentHeadings(dom), Listed))

\* C4 witness: a pass has run over the three paragraphs after the heading that
\* an earlier pass read has left the document
C4_Witness ==
  /\ hist.fresh
  /\ dom = ThreeParagraphs
  /\ hashText(Rep(78, 12)) \in seenTextBlocks
  /\ extractedContent.structuredContent.headings = << >>

\* C5: once isComplete is true it stays true
C5_CompleteStaysTrue ==
  [][extractedContent.isComplete => extractedContent'.isComplete]_vars

\* C5 witness: the debounce timer has fired away from the bottom, at a
\* position not 0, with isComplete already true
C5_Witness ==
  /\ extractedContent.isComplete
  /\ hist.lastFire # << >>
  /\ hist.lastFire[1].at = scrollY
  /\ scrollY # 0
  /\ ~(innerHeight + scrollY >= pageHeight - 100)
  /\ scrollTimeout = NoTimer
  /\ ~scrollEventPending

\* C6 as claimed: one pass over the three paragraphs leaves the 40- and the
\* 60-character paragraph
C6_TwoBlocks ==
  (dom = ThreeParagraphs /\ hist.events = 0 /\ clock = 1)
    => extractedContent.textContent = Blocks(<< Rep(97, 40), Rep(99, 60) >>)

\* C6 amended: one pass over the three paragraphs leaves all three in
\* document order (115 characters give no main content, the fallback walker
\* keeps every text longer than 10 characters)
C6_ThreeBlocks ==
  (dom = ThreeParagraphs /\ hist.events = 0 /\ clock = 1)
    => extractedContent.textContent
         = Blocks(<< Rep(97, 40), Rep(98, 15), Rep(99, 60) >>)

\* C6 witness: one pass has run over the three paragraphs
C6_Witness == dom = ThreeParagraphs /\ hist.events = 0 /\ clock = 1 /\ hist.fresh

\* C7: a debounce timer fire runs one pass and appends the current offset to
\* scrollPositions when the offset is more than 100px from the last recorded
\* position, and does neither otherwise
C7_FireRule ==
  hist.lastFire # << >> =>
    LET f == hist.lastFire[1]
        sp == extractedContent.scrollPositions
    IN IF Abs(f.at - f.from) > 100
       THEN f.passes = 1 /\ f.recorded = 1 /\ sp[Len(sp)].position = f.at
       ELSE f.passes = 0 /\ f.recorded = 0

\* C7 witness: a fire 150px from the last recorded position has run a pass
C7_Witness ==
  /\ hist.lastFire # << >>
  /\ hist.lastFire[1].from = 0
  /\ hist.lastFire[1].at = 150
  /\ hist.lastFire[1].passes = 1
  /\ Len(extractedContent.scrollPositions) = 1

\* the runs that have ended with nothing else moving the viewport meanwhile
UndisturbedEnded ==
  {r \in 1..Len(autoRuns) : ~autoRuns[r].active /\ r \notin hist.disturbed}

\* C8 as claimed: on the page of ten viewport heights a run ends after at
\* most 10 steps, with isComplete true and the offset 0
C8_TenSteps ==
  \A r \in UndisturbedEnded :
    pageHeight = 10 * innerHeight =>
      /\ autoRuns[r].scrollCount <= 10
      /\ autoRuns[r].endY = 0
      /\ extractedContent.isComplete

\* C8 amended: it ends after at most 12 steps, with isComplete true and the
\* offset 0
C8_TwelveSteps ==
  \A r \in UndisturbedEnded :
    pageHeight = 10 * innerHeight =>
      /\ autoRuns[r].scrollCount <= 12
      /\ autoRuns[r].endY = 0
      /\ extractedContent.isComplete

\* C8 witness: an undisturbed run has ended on the page of ten viewport heights
C8_Witness == pageHeight = 10 * innerHeight /\ UndisturbedEnded # {}

\* the img elements of the document
DocumentImages(d) == querySelectorAll(d, 0, {"img"})

ImageRecorded(img) ==
  \E k \in 1..Len(extractedContent.images) : extractedContent.images[k].src = img.src

\* C9: no image with a dimension below 100 is ever recorded; after a pass an
\* img of at least 100x100 whose src has no tracking or pixel part is recorded,
\* with a JPEG data URL when it is same-origin, and an img with a dimension
\* below 100 (such as 80x80) is not
C9_ImageRule ==
  /\ \A k \in 1..Len(extractedContent.images) :
       extractedContent.images[k].width >= 100 /\ extractedContent.images[k].height >= 100
  /\ hist.fresh =>
       \A n \in 1..Len(DocumentImages(dom)) :
         LET img == dom[DocumentImages(dom)[n]]
         IN IF img.w < 100 \/ img.h < 100
            THEN ~\E k \in 1..Len(extractedContent.images) :
                    /\ extractedContent.images[k].src = img.src
                    /\ extractedContent.images[k].width = img.w
                    /\ extractedContent.images[k].height = img.h
            ELSE (~SeqIncludes(img.src, "tracking") /\ ~SeqIncludes(img.src, "pixel"))
                   => \E k \in 1..Len(extractedContent.images) :
                        /\ extractedContent.images[k].src = img.src
                        /\ ~img.tainted =>
                             extractedContent.images[k].base64.mime = "image/jpeg"

\* C9 witness: a pass has run over the page with the 80x80 and the 200x300
\* image; the first is not recorded, the second is
C9_Witness ==
  /\ hist.fresh
  /\ dom = ImagePage
  /\ ~ImageRecorded(ImagePage[3])
  /\ ImageRecorded(ImagePage[4])

\* C10: the extractContent reply has every field of extractedContent but
\* textContent, of which it has the first min(length, 50000) characters, and
\* the request leaves extractedContent as it is
C10_TruncatedReply ==
  [][(lastReply' # lastReply /\ lastReply'[1].action = "extractContent")
       => LET reply == lastReply'[1].content
          IN /\ \A f \in DOMAIN extractedContent \ {"textContent"} :
                  reply[f] = extractedContent[f]
             /\ StrLen(reply.textContent)
                  = Min(StrLen(extractedContent.textContent), 50000)
             /\ IsStrPrefix(reply.textContent, extractedContent.textContent)
             /\ extractedContent' = extractedContent]_vars

\* C10 witness: a reply of 50000 characters to a request made with more stored
C10_Witness ==
  /\ lastReply # << >>
  /\ lastReply[1].action = "extractContent"
  /\ StrLen(lastReply[1].content.textContent) = 50000
  /\ StrLen(extractedContent.textContent) > 50000

\* C11: the getFullContent reply is extractedContent, every field, the text in
\* full; it is not the reply extractContent would give exactly when the text
\* is longer than 50000 characters
C11_FullReply ==
  [][(lastReply' # lastReply /\ lastReply'[1].action = "getFullContent")
       => LET reply == lastReply'[1].content
          IN /\ \A f \in DOMAIN extractedContent : reply[f] = extractedContent[f]
             /\ StrLen(reply.textContent) = StrLen(extractedContent.textContent)
             /\ (reply # Snapshot(extractedContent))
                  <=> (StrLen(extractedContent.textContent) > 50000)]_vars

\* C11 witness: a getFullContent reply with more than 50000 characters
C11_Witness ==
  /\ lastReply # << >>
  /\ lastReply[1].action = "getFullContent"
  /\ StrLen(lastReply[1].content.textContent) > 50000

\* C12: the success reply of an autoScroll command is sent once, by the step
\* that ends its run (viewport bottom within 50px of the document bottom, or
\* 50 steps made), and with it the offset is 0 and isComplete is true; a run
\* still going has sent none
C12_ReplyAtEnd ==
  [][\A r \in 1..Len(autoRuns) :
       /\ autoRuns'[r].replies = (IF autoRuns'[r].active THEN 0 ELSE 1)
       /\ autoRuns'[r].replies # autoRuns[r].replies
            => /\ autoRuns[r].active /\ ~autoRuns'[r].active
               /\ autoRuns'[r].scrollCount = autoRuns[r].scrollCount + 1
               /\ \/ autoRuns'[r].scrollCount >= 50
                  \/ innerHeight + Min(scrollY + (innerHeight * 4) \div 5,
                                       pageHeight - innerHeight) >= pageHeight - 50
               /\ scrollY' = 0
               /\ extractedContent'.isComplete]_vars

\* C12 witness: two overlapping commands have both been answered
C12_Witness ==
  /\ Len(autoRuns) = 2
  /\ \A r \in 1..2 : ~autoRuns[r].active /\ autoRuns[r].replies = 1
  /\ hist.disturbed # {}

\* the offset after one more increment of 80% of the viewport height
AfterIncrement == Min(scrollY + (innerHeight * 4) \div 5, pageHeight - innerHeight)

\* what every step keeps of C13 but the reason to stop early
StepsOfRun(r, StopsEarly) ==
  /\ autoRuns'[r].scrollCount <= 50
  /\ ~autoRuns[r].active => autoRuns'[r] = autoRuns[r]
  /\ autoRuns'[r].scrollCount # autoRuns[r].scrollCount
       => /\ autoRuns'[r].scrollCount = autoRuns[r].scrollCount + 1
          /\ IF autoRuns'[r].active
             THEN scrollY' = AfterIncrement /\ autoRuns'[r].scrollCount < 50 /\ ~StopsEarly
             ELSE autoRuns'[r].scrollCount = 50 \/ StopsEarly

\* a run that has started ends
RunEnds == (autoRuns # << >>) ~> (autoRuns # << >> /\ ~autoRuns[1].active)

\* C13 as claimed: a run ends; it makes at most 50 increments of 80% of the
\* viewport height, stops before the 50th only when the viewport bottom has
\* reached the document bottom, and makes no increment after it has stopped
C13_StopsAtBottom ==
  /\ [][\A r \in 1..Len(autoRuns) :
          StepsOfRun(r, innerHeight + AfterIncrement >= pageHeight)]_vars
  /\ RunEnds

\* C13 amended: the same, stopping before the 50th only when the viewport
\* bottom is within 50px of the document bottom
C13_StopsNearBottom ==
  /\ [][\A r \in 1..Len(autoRuns) :
          StepsOfRun(r, innerHeight + AfterIncrement >= pageHeight - 50)]_vars
  /\ RunEnds

\* C13 witness: a run has stopped at its 50th increment, away from the bottom
C13_Witness ==
  /\ autoRuns # << >>
  /\ ~autoRuns[1].active
  /\ autoRuns[1].scrollCount = 50
  /\ pageHeight > 50 * ((innerHeight * 4) \div 5) + innerHeight + 50

\* C14: after a pass has thrown, a scroll event that is dispatched still
\* starts the 200ms timer and a qualifying added node still starts a 500ms
\* timer
C14_TriggersSurvive ==
  [][hist.failures > 0
       => /\ (scrollEventPending /\ ~scrollEventPending') => scrollTimeout' = 200
          /\ dom' = dom \o Rebase(FragParagraph, Len(dom))
               => mutationTimers' = Append(mutationTimers, 500)]_vars

\* C15: a trigger whose pass throws leaves textContent, structuredContent,
\* images, scrollPositions, isComplete and seenTextBlocks as they were, and
\* starts no timer
C15_FailedPassNoOp ==
  [][hist'.failures # hist.failures
       => /\ \A f \in {"textContent", "structuredContent", "images", "scrollPositions",
                       "isComplete"} : extractedContent'[f] = extractedContent[f]
          /\ seenTextBlocks' = seenTextBlocks
          /\ loadTimer' \in {loadTimer, NoTimer}
          /\ scrollTimeout' \in {scrollTimeout, NoTimer}
          /\ Len(mutationTimers') <= Len(mutationTimers)]_vars
\* C16: after a pass, every eligible img whose canvas is tainted has its record
\* in images, with src, alt, title, width and height and with no data URL; the
\* pass went on after it: every eligible img later in the document, of a src not
\* met before, is recorded behind it, and the pass set extractedAt
C16_TaintedImageKept ==
  hist.fresh =>
    \A n \in 1..Len(DocumentImages(dom)) :
      LET img == dom[DocumentImages(dom)[n]]
      IN (img.tainted /\ ImageEligible(img, {})) =>
           \E k \in 1..Len(extractedContent.images) :
             /\ extractedContent.images[k] =
                  [src |-> img.src, alt |-> img.alt, title |-> img.title,
                   width |-> img.w, height |-> img.h, base64 |-> NullUrl]
             /\ \A m \in (n + 1)..Len(DocumentImages(dom)) :
                  ImageEligible(dom[DocumentImages(dom)[m]],
                                {dom[DocumentImages(dom)[i]].src : i \in 1..n}) =>
                    \E j \in (k + 1)..Len(extractedContent.images) :
                      extractedContent.images[j].src = dom[DocumentImages(dom)[m]].src
             /\ extractedContent.extractedAt # NoTimestamp

\* C16 witness: a pass has run over the page with the tainted 600x400 image;
\* its record has no data URL and the 1024x768 image after it is recorded
C16_Witness ==
  /\ hist.fresh
  /\ dom = ImagePage
  /\ \E k \in 1..Len(extractedContent.images) :
       /\ extractedContent.images[k].src = ImagePage[7].src
       /\ extractedContent.images[k].base64 = NullUrl
       /\ k < Len(extractedContent.images)
       /\ extractedContent.images[k + 1].src = ImagePage[9].src

\* C17: a step that answers extractContent or getFullContent puts in the reply
\* the state of that moment (textContent cut to 50000 characters for
\* extractContent) and changes nothing else: extractedContent, seenTextBlocks,
\* the pass count, every pending timer and every auto-scroll run stay as they
\* are
C17_SnapshotOnly ==
  [][(lastReply' # lastReply
        /\ lastReply'[1].action \in {"extractContent", "getFullContent"})
       => /\ lastReply'[1].content =
               IF lastReply'[1].action = "extractContent"
               THEN [extractedContent EXCEPT
                       !.textContent = Substring0(@, SnapshotMaxLen)]
               ELSE extractedContent
          /\ UNCHANGED << extractedContent, seenTextBlocks, clock, loadTimer,
                          scrollTimeout, mutationTimers, autoRuns, lastScrollPosition,
                          scrollY, scrollEventPending, dom, phase >>]_vars

\* C17 witness: a reply holds the text of the first pass while the load timer,
\* the scroll timer and a mutation timer are pending and an auto-scroll runs
C17_Witness ==
  /\ lastReply # << >>
  /\ StrLen(lastReply[1].content.textContent) > 0
  /\ lastReply[1].content.textContent = extractedContent.textContent
  /\ loadTimer # NoTimer
  /\ scrollTimeout # NoTimer
  /\ mutationTimers # << >>
  /\ \E r \in 1..Len(autoRuns) : autoRuns[r].active

\* the history loadChatHistory() would load on a page
StoredFor(pageUrl) == StorageGet(ChatKey(pageUrl))

\* C18: the history stored for a page holds only messages of that page, and a
\* step that changes the storage while the popup is on one page leaves the
\* history stored for every other page as it is
C18_PerUrl ==
  /\ [](\A u \in PageUrls : \A k \in 1..Len(StoredFor(u)) :
          StoredFor(u)[k].content.page = u)
  /\ [][\A u \in PageUrls \ {currentPageUrl} :
          StorageGet(ChatKey(u))' = StorageGet(ChatKey(u))]_vars

\* C19: once clearChat() has run and no query has been sent since, chatHistory
\* is empty and nothing is stored for the current page
C19_StaysCleared ==
  popupHist.cleared =>
    /\ chatHistory = << >>
    /\ currentPageUrl # NoUrl => ChatKey(currentPageUrl) \notin DOMAIN storageLocal

\* C20: images never holds more than five records
C20_AtMostFiveImages == Len(extractedContent.images) <= 5

\* C21: the scroll debounce timer. A dispatched scroll event leaves one timer
\* of 200ms, whatever was pending; a timer is pending exactly when events have
\* come since the last fire, and it is due 200ms after the last of them; so
\* the timer fires once for a burst, 200ms after its last event
C21_OneFirePerBurst ==
  /\ [](/\ (scrollTimeout = NoTimer) <=> (hist.burst = 0)
        /\ (scrollTimeout # NoTimer) => (scrollTimeout = 200 - hist.sinceEvent))
  /\ [][/\ (scrollEventPending /\ ~scrollEventPending' /\ Listening) =>
             (scrollTimeout' = 200)
        /\ (scrollTimeout # NoTimer /\ scrollTimeout' = NoTimer) =>
             (hist.sinceEvent = 200 /\ hist.burst >= 1 /\ hist'.burst = 0)]_vars

\* C21 witness: the timer is due after a burst of three events, the last of
\* them more than 0 and less than 200ms after the one before
C21_Witness ==
  /\ hist.burst = 3
  /\ hist.gap > 0
  /\ hist.gap < 200
  /\ scrollTimeout = 0

\* C22: at most one mutation pass is pending at any time, so the qualifying
\* mutations of a burst (each within 500ms of the one before) are followed by
\* one pass
C22_OnePassPerBurst == Len(mutationTimers) <= 1

\* C23: when the scroll debounce timer fires with the viewport bottom within
\* 100px of the document bottom, isComplete is true afterwards, whether the
\* fire ran a pass or not
C23_CompleteAtBottom ==
  [][(scrollTimeout = 0 /\ scrollTimeout' = NoTimer
        /\ innerHeight + scrollY >= pageHeight - 100)
       => extractedContent'.isComplete]_vars

\* C23 witness: the first fire at the bottom margin (offset 50 on the page
\* 150px higher than the viewport) ran no pass and isComplete is true
C23_Witness ==
  /\ hist.lastFire # << >>
  /\ hist.lastFire[1].passes = 0
  /\ hist.lastFire[1].at = 50
  /\ innerHeight + 50 = pageHeight - 100
  /\ extractedContent.scrollPositions = << >>
  /\ extractedContent.isComplete

\* initAutoExtraction has run
Started == phase \notin {"loading", "complete"}

\* the load timer is set by the load event only, to 1000ms, and when it is
\* due one pass runs
LoadTimerRule ==
  /\ (loadTimer' # NoTimer /\ loadTimer = NoTimer) =>
       (phase = "ready" /\ phase' = "loaded" /\ loadTimer' = 1000)
  /\ (phase = "ready" /\ phase' = "loaded") => (loadTimer' = 1000)
  /\ (loadTimer # NoTimer /\ loadTimer' = NoTimer) =>
       (loadTimer = 0 /\ clock' = clock + 1 /\ hist'.fresh
          /\ extractedContent'.extractedAt = clock)

\* initAutoExtraction runs once: its step sets title and url, runs the first
\* pass and installs the listeners; no later step writes title or url
InitOnceRule ==
  /\ (~Started /\ Started') =>
       (clock' = clock + 1 /\ hist'.fresh /\ Listening'
          /\ extractedContent'.extractedAt = clock
          /\ extractedContent'.title = PageTitle /\ extractedContent'.url = PageUrl)
  /\ Started =>
       (/\ Started'
        /\ extractedContent'.title = extractedContent.title
        /\ extractedContent'.url = extractedContent.url)

\* C24 as stated: initAutoExtraction runs once, and in every page view whose
\* load event has passed and whose load timer is done, one load pass has run
C24_InitOnceLoadOnce ==
  /\ []((Started /\ phase # "ready" /\ loadTimer = NoTimer) => hist.loadPasses = 1)
  /\ [][InitOnceRule /\ LoadTimerRule]_vars

\* C24 amended: initAutoExtraction runs once; when the load event comes after
\* the script has started, one load pass runs 1000ms after it, and when the
\* document had loaded before the script started, no load pass runs
C24_LoadPassIfHeard ==
  /\ [](/\ (phase = "loaded" /\ loadTimer = NoTimer) => hist.loadPasses = 1
        /\ (phase = "loaded" /\ loadTimer # NoTimer) => hist.loadPasses = 0
        /\ phase # "loaded" => (hist.loadPasses = 0 /\ loadTimer = NoTimer))
  /\ [][InitOnceRule /\ LoadTimerRule]_vars

\* C24 witness: the script started on a loaded document, a scroll pass has run
\* after the first pass and no load pass
C24_Witness ==
  /\ phase = "late"
  /\ clock = 2
  /\ Len(extractedContent.scrollPositions) = 1
  /\ hist.loadPasses = 0
  /\ extractedContent.title = PageTitle

\* the text state a pass starts from
TextState ==
  [seen |-> seenTextBlocks, textContent |-> extractedContent.textContent,
   paragraphs |-> extractedContent.structuredContent.paragraphs]

\* C25: a pass leaves the text of the strategy scan of the located element
\* when findMainContent finds one, and the text of the fallback walker when it
\* finds none; in both cases headings and lists are those of the document,
\* images is updated and extractedAt is set
C25_OneTextPath ==
  [][(clock' = clock + 1) =>
       LET mainContent == findMainContent(dom)
           st == IF mainContent # 0 THEN extractFromElement(TextState, dom, mainContent)
                 ELSE extractFromBody(TextState, dom)
           sc == updateStructuredContent(extractedContent.structuredContent, dom)
       IN /\ extractedContent'.textContent = st.textContent
          /\ seenTextBlocks' = st.seen
          /\ extractedContent'.structuredContent.paragraphs = st.paragraphs
          /\ extractedContent'.structuredContent.headings = sc.headings
          /\ extractedContent'.structuredContent.lists = sc.lists
          /\ extractedContent'.images = updateImages(extractedContent.images, dom)
          /\ extractedContent'.extractedAt = clock]_vars

\* C25 witness: a pass has run over a document in which findMainContent finds
\* nothing, and has text, images and extractedAt
C25_Witness ==
  /\ hist.fresh
  /\ findMainContent(dom) = 0
  /\ StrLen(extractedContent.textContent) > 0
  /\ extractedContent.images # << >>
  /\ extractedContent.extractedAt # NoTimestamp

\* C26: a call of isDuplicate returns true exactly when an earlier call had a
\* text of the same hash, and then leaves seenTextBlocks as it is; otherwise it
\* adds the hash; a text that shares its first 100 characters with the text of
\* an earlier call is reported as duplicate
C26_DuplicateRule ==
  /\ [](\A k \in 1..Len(hist.calls) :
          /\ hist.calls[k].dup <=>
               \E j \in 1..(k - 1) :
                 hashText(hist.calls[j].text) = hashText(hist.calls[k].text)
          /\ (\E j \in 1..(k - 1) :
                Substring0(hist.calls[j].text, 100) = Substring0(hist.calls[k].text, 100))
               => hist.calls[k].dup)
  /\ [][Len(hist'.calls) = Len(hist.calls) + 1 =>
          LET call == hist'.calls[Len(hist'.calls)]
          IN IF call.dup THEN seenTextBlocks' = seenTextBlocks
             ELSE /\ hashText(call.text) \notin seenTextBlocks
                  /\ seenTextBlocks' = seenTextBlocks \cup {hashText(call.text)}]_vars

\* C26 witness: the second of two different texts with the same first 100
\* characters was reported as duplicate, a third text of another hash was not
C26_Witness ==
  /\ Len(hist.calls) = 3
  /\ hist.calls[1] = [text |-> DedupTexts[1], dup |-> FALSE]
  /\ hist.calls[2] = [text |-> DedupTexts[2], dup |-> TRUE]
  /\ hist.calls[3] = [text |-> DedupTexts[4], dup |-> FALSE]
  /\ DedupTexts[1] # DedupTexts[2]
  /\ Cardinality(seenTextBlocks) = 2

\* the number of line feeds in the runs k.. of a text
RECURSIVE LineFeeds(_, _)
LineFeeds(text, k) ==
  IF k > Len(text) THEN 0
  ELSE (IF text[k].c = 10 THEN text[k].n ELSE 0) + LineFeeds(text, k + 1)

\* the number of heading blocks of a text log: "\n## " at the start of a block
HeadingBlocks(text) ==
  Cardinality({k \in 2..(Len(text) - 1) :
                 /\ text[k] = [c |-> 35, n |-> 2]
                 /\ text[k - 1].c = 10
                 /\ text[k + 1].c = 32})

\* the number of blocks appended to a text log of paragraphs, list items,
\* quotes and headings: addText ends every block with a line feed, and a
\* heading block has two more
BlockCount(text) == LineFeeds(text, 1) - 2 * HeadingBlocks(text)

\* C27: whatever passes have run, on whatever state of the document, the text
\* log has as many blocks as seenTextBlocks has hashes: every block was
\* appended together with a new hash, so no two blocks come from texts of the
\* same hash
C27_OneBlockPerHash == BlockCount(extractedContent.textContent) = Cardinality(seenTextBlocks)

\* C27 witness: three passes have run around one change of the document, so
\* two of them back to back on the same document, and the log has more than
\* three blocks, one of them a heading
C27_Witness ==
  /\ clock = 3
  /\ hist.events = 1
  /\ hist.fresh
  /\ HeadingBlocks(extractedContent.textContent) > 0
  /\ BlockCount(extractedContent.textContent) > 3

\* C28: the text log holds nothing of the rows after the twentieth of a
\* table: neither the text of row 21 (code 85) nor that of row 22 (code 86)
C28_TwentyRows ==
  \A k \in 1..Len(extractedContent.textContent) :
    extractedContent.textContent[k].c \notin {85, 86}

\* C29: after a pass over a table, the cell of z of its first row is in the
\* text log exactly when it has at most 200 characters
C29_CellKeptUpTo200 ==
  (hist.fresh /\ Len(dom) >= 7 /\ dom[4].tag = "table") =>
    ((\E k \in 1..Len(extractedContent.textContent) :
        extractedContent.textContent[k].c = 122)
       <=> StrLen(dom[7].text) <= 200)

\* C30: after a pass over the page of the walker, the text node of 10
\* characters is in the text log and the one of 9 characters is not
C30_WalkerKeepsTen ==
  (hist.fresh /\ Len(dom) >= Len(WalkerPage)
     /\ SubSeq(dom, 1, Len(WalkerPage)) = WalkerPage) =>
    /\ \E k \in 1..Len(extractedContent.textContent) :
         extractedContent.textContent[k] = [c |-> 121, n |-> 10]
    /\ \A k \in 1..Len(extractedContent.textContent) :
         extractedContent.textContent[k].c # 120

\* the element the locator is said to return: among the elements that match
\* a candidate selector and have more than 500 characters of trimmed text,
\* the first in selector order and then in document order; 0 when there is none
QualifyingElement(d) ==
  LET Qualifies(k, j) ==
        /\ Matches(d[j], contentSelectors[k])
        /\ StrLen(Trim(textContent(d, j))) > MainContentMinLen
      ks == {k \in 1..Len(contentSelectors) : \E j \in 1..Len(d) : Qualifies(k, j)}
  IN IF ks = {} THEN 0
     ELSE LET k == CHOOSE x \in ks : \A y \in ks : x <= y
              js == {j \in 1..Len(d) : Qualifies(k, j)}
          IN CHOOSE x \in js : \A y \in js : x <= y

\* C31: the pass has located the first qualifying element of the document,
\* and ran the fallback walker (which reads the div of 15 characters outside
\* the articles) only when no element qualifies
C31_FirstQualifying ==
  hist.fresh =>
    /\ findMainContent(dom) = QualifyingElement(dom)
    /\ (QualifyingElement(dom) # 0 /\ Len(dom) >= Len(TwoArticles)
          /\ SubSeq(dom, 1, Len(TwoArticles)) = TwoArticles)
         => \A k \in 1..Len(extractedContent.textContent) :
              extractedContent.textContent[k].c # 117

\* C32: after a pass structuredContent.lists has at most 10 lists, each of
\* 1 to 20 items, and every one of them is a ul or ol of the live document
\* with its items the direct texts of li children of that list
C32_ListsFromLiveDocument ==
  hist.fresh =>
    LET lists == extractedContent.structuredContent.lists
    IN /\ Len(lists) <= 10
       /\ \A n \in 1..Len(lists) :
            /\ Len(lists[n].items) >= 1
            /\ Len(lists[n].items) <= 20
            /\ \E j \in 1..Len(dom) :
                 /\ dom[j].tag \in {"ul", "ol"}
                 /\ dom[j].tag = lists[n].type
                 /\ \A m \in 1..Len(lists[n].items) :
                      \E li \in 1..Len(dom) :
                        /\ dom[li].tag = "li"
                        /\ dom[li].parent = j
                        /\ getDirectText(dom, li) = lists[n].items[m]

\* C32 witness: the page of eleven lists has lost its last two, and the second
\* pass or a later one has left nine lists, the first with 20 of its 21 items
C32_Witness ==
  /\ hist.fresh
  /\ clock >= 2
  /\ Len(dom) = Len(ListPage) - 6
  /\ dom = SubSeq(ListPage, 1, Len(dom))
  /\ Len(extractedContent.structuredContent.lists) = 9
  /\ Len(extractedContent.structuredContent.lists[1].items) = 20

\* the runs started with the scroll listener in place and with nothing else
\* moving the viewport since
Alone(r) == r \notin hist.disturbed /\ r \notin hist.unheard

ScrollTrail ==
  LET sp == extractedContent.scrollPositions
  IN /\ lastScrollPosition = IF sp = << >> THEN 0 ELSE sp[Len(sp)].position
     /\ sp # << >> => Abs(sp[1].position) > 100
     /\ \A k \in 1..(Len(sp) - 1) : Abs(sp[k + 1].position - sp[k].position) > 100

\* the step part of C34: scrollPositions only grows at its end, by one entry in
\* a step where the debounce timer fires and runs a pass, by none in any other
ScrollTrailStep ==
  LET sp == extractedContent.scrollPositions
      after == extractedContent'.scrollPositions
      scrollPass == scrollTimeout = 0 /\ scrollTimeout' = NoTimer /\ clock' = clock + 1
  IN /\ Len(after) = Len(sp) + (IF scrollPass THEN 1 ELSE 0)
     /\ SubSeq(after, 1, Len(sp)) = sp

\* C34: scrollPositions is the append-only trail of the scroll-triggered
\* passes, one entry per pass, each more than 100px from the one before (the
\* first from 0), and lastScrollPosition is the position of its last entry
C34_ScrollTrail == [] ScrollTrail /\ [][ScrollTrailStep]_vars

\* C34 witness: two scroll passes have left the entries 150 and 450
C34_Witness ==
  /\ Len(extractedContent.scrollPositions) = 2
  /\ extractedContent.scrollPositions[1].position = 150
  /\ extractedContent.scrollPositions[2].position = 450
  /\ lastScrollPosition = 450

\* C35: after any number of passes over the article whose heading, list item,
\* table, blockquote and dd repeat the texts of its paragraphs, the text log
\* is the six paragraphs, once each, and nothing else
C35_RepeatsNeverAppended ==
  (hist.fresh /\ Len(dom) >= Len(RepeatPage)
     /\ SubSeq(dom, 1, Len(RepeatPage)) = RepeatPage) =>
    extractedContent.textContent =
      Blocks(<< Rep(97, 510), Rep(98, 30), Rep(99, 30), Rep(100, 30), Rep(101, 30),
                Rep(102, 30) >>)

\* C35 witness: two passes or more have run over that article, and six hashes
\* are in seenTextBlocks
C35_Witness ==
  /\ hist.fresh
  /\ clock >= 2
  /\ dom = RepeatPage
  /\ Cardinality(seenTextBlocks) = 6
  /\ extractedContent.textContent # EmptyStr

\* the runs left alone that have ended
AloneEnded == {r \in 1..Len(autoRuns) : ~autoRuns[r].active /\ Alone(r)}

\* the offset reached by the final increment of a run of count increments that
\* started at the top
FinalOffset(count) == Min(count * scrollStep, MaxScrollY)

\* the state part of C36: once a run left alone has ended, no entry of
\* scrollPositions is at the offset of its final increment, and when the last
\* debounce timer has fired after a run of two increments or more, the trail
\* has one entry per increment before the final one and a last entry at 0
AfterRun ==
  \A r \in AloneEnded :
    LET sp == extractedContent.scrollPositions
    IN /\ autoRuns[r].replies = 1
       /\ \A k \in 1..Len(sp) : sp[k].position # FinalOffset(autoRuns[r].scrollCount)
       /\ (scrollTimeout = NoTimer /\ ~scrollEventPending /\ autoRuns[r].scrollCount >= 2)
            => (Len(sp) = autoRuns[r].scrollCount /\ sp[Len(sp)].position = 0)

\* the step part of C36: the step that ends a run left alone sends the reply,
\* runs no pass, adds no entry and leaves the scroll event of the final
\* increment and of the reset pending, so that the content at the reply has
\* no entry at 0; the firing after it comes 200ms after that event, at offset 0
AfterRunStep ==
  /\ \A r \in 1..Len(autoRuns) :
       (autoRuns[r].active /\ ~autoRuns'[r].active /\ Alone(r)) =>
         /\ autoRuns'[r].replies = 1
         /\ clock' = clock
         /\ scrollTimeout = NoTimer /\ scrollTimeout' = NoTimer
         /\ scrollEventPending'
         /\ scrollY' = 0
         /\ Snapshot(extractedContent').scrollPositions = extractedContent.scrollPositions
         /\ Snapshot(extractedContent').textContent = extractedContent.textContent
         /\ \A k \in 1..Len(extractedContent'.scrollPositions) :
              extractedContent'.scrollPositions[k].position # 0
  /\ (AloneEnded # {} /\ scrollTimeout = 0 /\ scrollTimeout' = NoTimer) =>
       (scrollY = 0 /\ hist.sinceEvent = ScrollDebounceMs)

\* C36: the success reply of a run left alone comes before the debounce timer
\* of its final increment and of the reset fires; that timer fires 200ms
\* later at offset 0, the offset of the final increment is never recorded,
\* and the content at the reply is without the pass of that timer
C36_ReplyBeforeLastFire == [] AfterRun /\ [][AfterRunStep]_vars

\* C36 witness: a run left alone on the page of ten viewport heights has ended
\* after 12 increments, the last timer has fired and its pass has left the
\* twelfth entry, at 0, behind eleven entries from 400 to 4400
C36_Witness ==
  \E r \in AloneEnded :
    /\ autoRuns[r].scrollCount = 12
    /\ scrollTimeout = NoTimer
    /\ ~scrollEventPending
    /\ Len(extractedContent.scrollPositions) = 12
    /\ extractedContent.scrollPositions[11].position = 11 * scrollStep
    /\ extractedContent.scrollPositions[12].position = 0

\* the state part of C37: no run has made more than 50 increments, and a run
\* has its one reply exactly when it has ended
RunsReplied ==
  \A r \in 1..Len(autoRuns) :
    /\ autoRuns[r].scrollCount <= 50
    /\ autoRuns[r].replies = IF autoRuns[r].active THEN 0 ELSE 1

\* the step part of C37: a step adds one to the counter of at most one run and
\* leaves the counters of the others, and a run that has ended stays as it is
RunsApartStep ==
  /\ \A r \in 1..Len(autoRuns) :
       /\ autoRuns'[r].scrollCount \in {autoRuns[r].scrollCount, autoRuns[r].scrollCount + 1}
       /\ ~autoRuns[r].active => autoRuns'[r] = autoRuns[r]
  /\ Cardinality({r \in 1..Len(autoRuns) :
                    autoRuns'[r].scrollCount # autoRuns[r].scrollCount}) <= 1

\* C37: overlapping runs count their own increments, none makes more than 50,
\* and every run ends and has exactly one reply
C37_EveryRunReplied ==
  /\ [] RunsReplied
  /\ [][RunsApartStep]_vars
  /\ \A r \in 1..MaxRuns :
       (Len(autoRuns) >= r)
         ~> (Len(autoRuns) >= r /\ ~autoRuns[r].active /\ autoRuns[r].replies = 1)

\* C37 witness: two runs on the tall page, each of which made increments
\* while the other was under way, have both ended with their reply, the
\* second after 50 increments
C37_Witness ==
  /\ Len(autoRuns) = 2
  /\ hist.disturbed = {1, 2}
  /\ ~autoRuns[1].active /\ autoRuns[1].replies = 1
  /\ ~autoRuns[2].active /\ autoRuns[2].replies = 1
  /\ autoRuns[2].scrollCount = 50

\* the text and the images of the last reply are a prefix of those of the
\* reply now
GrownFrom(now) ==
  LET reply == lastReply[1].content
  IN /\ IsStrPrefix(reply.textContent, now.textContent)
     /\ Len(reply.images) <= Len(now.images)
     /\ SubSeq(now.images, 1, Len(reply.images)) = reply.images

CompleteOnlyBy ==
  (~extractedContent.isComplete /\ extractedContent'.isComplete) =>
    \/ /\ scrollTimeout = 0
       /\ scrollTimeout' = NoTimer
       /\ innerHeight + scrollY >= pageHeight - 100
    \/ \E r \in 1..Len(autoRuns) : autoRuns[r].active /\ ~autoRuns'[r].active

\* the state part of C39: on a page that fits in the viewport isComplete is
\* false as long as no scroll event was heard and no autoScroll command came
FitsStaysOpen ==
  (pageHeight <= innerHeight /\ autoRuns = << >> /\ hist.lastFire = << >>) =>
    ~extractedContent.isComplete

\* C39: isComplete is set by the near-bottom firing of the scroll timer and by
\* the end of an auto-scroll run and by nothing else, no pass sets it, and on
\* a page that fits in the viewport it stays false until then
C39_CompleteOnlyByScroll == [] FitsStaysOpen /\ [][CompleteOnlyBy]_vars

\* C39 witness: on the page that fits in the viewport the initial pass, the
\* load pass and a mutation pass have run and isComplete is still false
C39_Witness ==
  /\ pageHeight <= innerHeight
  /\ clock = 3
  /\ hist.loadPasses = 1
  /\ hist.mutations >= 1
  /\ autoRuns = << >>
  /\ ~extractedContent.isComplete

====
